---- MODULE Spec2Model ----
(***************************************************************************)
(* A model of the immerutable containers: the hash-trie Map (map.ts), the  *)
(* B-tree SortedCollection (sortedcollection.ts), the SortedMap built on   *)
(* both (sortedmap.ts) and the LruCache built on the SortedMap             *)
(* (lrucache.ts).  Every adapter method is a pure operator from the        *)
(* container value before the call to the container value after it; the    *)
(* actions apply the operators to inputs drawn from small sets.            *)
(***************************************************************************)
EXTENDS Integers, Sequences, FiniteSets, TLC

VARIABLES
  adapter,    \* SortedCollectionAdapter: [maxItemsPerLevel, orderComparer]
  map,        \* IMap: [root, size]                     (map.ts)
  coll,       \* ISortedCollection: [root, size]        (sortedcollection.ts)
  nextOrder,  \* ILruCache.nextOrder                    (lrucache.ts)
  oracle,     \* ghost: the reference dictionary / multiset of the run
  last        \* ghost: the last call, its inputs, its result, the state before

vars == <<adapter, map, coll, nextOrder, oracle, last>>

\* sortedcollection.ts: the default of maxItemsPerLevel
MAX_ITEMS_PER_LEVEL == 64

\* JavaScript's undefined, for values and return values.  The other values are
\* records too: the number n is [key |-> n, order |-> n, prim |-> TRUE] (what
\* the comparers of the runs read of a number is the number), an object is the
\* record of its fields with prim |-> FALSE.
Undefined == [undefined |-> TRUE]

\* --------------------------------------------------------------------------
\* Small helpers over sequences
\* --------------------------------------------------------------------------

\* Indexes are the code's: arrays start at 0.  At(s, i) is s[i].
At(s, i) == s[i + 1]

Has(s, i) == 0 <= i /\ i < Len(s)

\* s.slice(from, to)
Slice(s, from, to) == SubSeq(s, from + 1, to)

\* s.splice(i, 1) : the array left
RemoveAt(s, i) == SubSeq(s, 1, i) \o SubSeq(s, i + 2, Len(s))

\* s.splice(i, 0, e) : the array left
InsertAt(s, i, e) == SubSeq(s, 1, i) \o <<e>> \o SubSeq(s, i + 1, Len(s))

\* s[i] = e
SetAt(s, i, e) == [s EXCEPT ![i + 1] = e]

\* the element of a one-element set; {F(x) : x \in {e}} computes e once for
\* all the places where F reads it
Only(S) == CHOOSE x \in S : TRUE

\* --------------------------------------------------------------------------
\* hash.ts
\* --------------------------------------------------------------------------

\* hashNumber, for the keys the model uses: integers of the int32 range, for
\* which `num | 0` is num itself and neither the xor nor the loop is entered.
hashNumber(num) == num

Half == 65536

\* (31 * hashed + code) | 0 on a 32-bit word kept as two 16-bit halves
hashStep(w, code) ==
  LET lo == 31 * w.lo + code
  IN [lo |-> lo % Half, hi |-> (31 * w.hi + (lo \div Half)) % Half]

RECURSIVE hashStringFrom(_, _, _)
hashStringFrom(str, ii, hashed) ==
  IF ii > Len(str) THEN hashed
  ELSE hashStringFrom(str, ii + 1, hashStep(hashed, str[ii]))

\* the signed reading of the 32-bit word
WordToInt32(w) == IF w.hi >= Half \div 2 THEN (w.hi - Half) * Half + w.lo ELSE w.hi * Half + w.lo

\* hashString: a string is the sequence of its char codes
hashString(str) == WordToInt32(hashStringFrom(str, 1, [lo |-> 0, hi |-> 0]))

\* a key is [kind |-> "num", val |-> n] or [kind |-> "str", val |-> <<codes>>]
hash(key) == IF key.kind = "num" THEN hashNumber(key.val) ELSE hashString(key.val)

\* --------------------------------------------------------------------------
\* map.ts : MapAdapter, the hash trie
\* --------------------------------------------------------------------------
\* A trie node is [type |-> "trie", slots |-> f], f a function from the filled
\* indexes (a sparse array) to nodes; a single-value node is
\* [type |-> "single", key, value]; a multi-value node is
\* [type |-> "multi", map |-> g], g a function from property names to
\* single-value nodes.

shift == 4

trieNodeSize == 16

mask == trieNodeSize - 1

maxDepth == 8

UndefinedNode == [type |-> "undefined"]

createTrieNode == [type |-> "trie", slots |-> <<>>]

createSingleValueNode(key, value) == [type |-> "single", key |-> key, value |-> value]

createValueNode == [type |-> "multi", map |-> <<>>]

MapCreate == [root |-> createTrieNode, size |-> 0]

RECURSIVE Pow16(_)
Pow16(n) == IF n = 0 THEN 1 ELSE trieNodeSize * Pow16(n - 1)

\* computePartialHashCode that takes the first digits of the hash code at
\* every depth
computePartialHashCodeOfFirst(hashCode, depth) == hashCode % trieNodeSize

\* (hashCode >> ((depth - 1) * shift)) & mask
computePartialHashCode(hashCode, depth) == (hashCode \div Pow16(depth - 1)) % trieNodeSize

RECURSIVE Digits(_)
Digits(n) == IF n < 10 THEN <<48 + n>> ELSE Digits(n \div 10) \o <<48 + (n % 10)>>

\* The property name a key becomes when it indexes the object of a multi-value
\* node (`map[key]`, `key in map`): a string is itself, a number its decimal text.
PropName(key) == IF key.kind = "str" THEN key.val ELSE Digits(key.val)

\* the node at the end of a path of slot indexes
RECURSIVE TrieAt(_, _)
TrieAt(node, path) == IF path = <<>> THEN node ELSE TrieAt(node.slots[Head(path)], Tail(path))

\* trieNode[index] = child, for the trie node at `path`
RECURSIVE SetSlot(_, _, _, _)
SetSlot(node, path, index, child) ==
  IF path = <<>> THEN [node EXCEPT !.slots = (index :> child) @@ node.slots]
  ELSE [node EXCEPT !.slots[Head(path)] = SetSlot(@, Tail(path), index, child)]

\* delete trieNode[index], for the trie node at `path`
RECURSIVE DeleteSlot(_, _, _)
DeleteSlot(node, path, index) ==
  IF path = <<>>
  THEN [node EXCEPT !.slots = [i \in (DOMAIN node.slots) \ {index} |-> node.slots[i]]]
  ELSE [node EXCEPT !.slots[Head(path)] = DeleteSlot(@, Tail(path), index)]

\* the loop of lookupValueNode; `path` leads from the root to `node`
RECURSIVE lookupLoop(_, _, _, _, _)
lookupLoop(node, path, hashCode, depth, index) ==
  IF depth > maxDepth
  THEN [path |-> path, depth |-> depth, index |-> index, valueNode |-> UndefinedNode]
  ELSE LET idx == computePartialHashCode(hashCode, depth)
           d   == depth + 1
       IN IF idx \notin DOMAIN node.slots
          THEN [path |-> path, depth |-> d, index |-> idx, valueNode |-> UndefinedNode]
          ELSE IF node.slots[idx].type = "trie"
               THEN lookupLoop(node.slots[idx], Append(path, idx), hashCode, d, idx)
               ELSE [path |-> path, depth |-> d, index |-> idx, valueNode |-> node.slots[idx]]

\* containingTrieNode is the trie node at .path
lookupValueNode(m, key) == lookupLoop(m.root, <<>>, hash(key), 1, 0)

MapHas(m, key) ==
  LET r == lookupValueNode(m, key)
  IN IF r.valueNode.type = "undefined" THEN FALSE
     ELSE IF r.depth < maxDepth THEN r.valueNode.key = key
     ELSE PropName(key) \in DOMAIN r.valueNode.map

MapGet(m, key) ==
  LET r == lookupValueNode(m, key)
  IN IF r.valueNode.type = "undefined" THEN Undefined
     ELSE IF r.depth < maxDepth
          THEN (IF r.valueNode.key = key THEN r.valueNode.value ELSE Undefined)
          ELSE IF PropName(key) \in DOMAIN r.valueNode.map
               THEN r.valueNode.map[PropName(key)].value
               ELSE Undefined

\* pushSingleValueNodeDown without its last statement: the new trie node
\* replaces the single value node and nothing is put into it
pushSingleValueNodeDownDroppingIt(root, path, index, depth) ==
  SetSlot(root, path, index, createTrieNode)

\* the root after pushSingleValueNodeDown(trieNode at path, index, depth)
pushSingleValueNodeDown(root, path, index, depth) ==
  LET singleValueNode == TrieAt(root, path).slots[index]
      partialHash     == computePartialHashCode(hash(singleValueNode.key), depth)
      newTrieNode ==
        IF depth = maxDepth - 1
        THEN [type |-> "trie",
              slots |-> (partialHash :>
                 [type |-> "multi",
                  map |-> (PropName(singleValueNode.key) :> singleValueNode)])]
        ELSE [type |-> "trie", slots |-> (partialHash :> singleValueNode)]
  IN SetSlot(root, path, index, newTrieNode)

RECURSIVE MapSet(_, _, _)
MapSet(m, key, value) ==
  LET r == lookupValueNode(m, key)
  IN IF r.valueNode.type = "undefined"
     THEN IF r.depth < maxDepth
          THEN [root |-> SetSlot(m.root, r.path, r.index, createSingleValueNode(key, value)),
                size |-> m.size + 1]
          ELSE IF r.depth = maxDepth
               THEN [root |-> SetSlot(m.root, r.path, r.index,
                                [type |-> "multi",
                                 map |-> (PropName(key) :> createSingleValueNode(key, value))]),
                     size |-> m.size + 1]
               ELSE [m EXCEPT !.size = @ + 1]
     ELSE IF r.depth < maxDepth
          THEN IF r.valueNode.key = key
               THEN [m EXCEPT !.root =
                       SetSlot(m.root, r.path, r.index, [r.valueNode EXCEPT !.value = value])]
               ELSE MapSet([m EXCEPT !.root =
                              pushSingleValueNodeDown(m.root, r.path, r.index, r.depth)],
                           key, value)
          ELSE [root |-> SetSlot(m.root, r.path, r.index,
                           [r.valueNode EXCEPT !.map =
                              (PropName(key) :> createSingleValueNode(key, value)) @@ @]),
                size |-> IF PropName(key) \in DOMAIN r.valueNode.map
                         THEN m.size ELSE m.size + 1]

\* The recursion of set(map, key, ..) up to the call that stores: the map
\* after its push-downs and their number n.  A call that would push further
\* after maxDepth push-downs is cut off there.
RECURSIVE setPushDowns(_, _, _)
setPushDowns(m, key, n) ==
  LET r == lookupValueNode(m, key)
  IN IF /\ r.valueNode.type # "undefined"
        /\ r.depth < maxDepth
        /\ r.valueNode.key # key
        /\ n < maxDepth
     THEN setPushDowns([m EXCEPT !.root =
                          pushSingleValueNodeDown(m.root, r.path, r.index, r.depth)],
                       key, n + 1)
     ELSE [map |-> m, pushDowns |-> n]

\* remove that clears the whole multi-value node the key is in
MapRemoveClearingNode(m, key) ==
  LET r == lookupValueNode(m, key)
  IN IF r.valueNode.type = "undefined" THEN m
     ELSE IF r.depth < maxDepth
          THEN [root |-> DeleteSlot(m.root, r.path, r.index), size |-> m.size - 1]
          ELSE IF PropName(key) \in DOMAIN r.valueNode.map
               THEN [root |-> SetSlot(m.root, r.path, r.index, createValueNode),
                     size |-> m.size - 1]
               ELSE m

MapRemove(m, key) ==
  LET r == lookupValueNode(m, key)
  IN IF r.valueNode.type = "undefined" THEN m
     ELSE IF r.depth < maxDepth
          THEN [root |-> DeleteSlot(m.root, r.path, r.index), size |-> m.size - 1]
          ELSE IF PropName(key) \in DOMAIN r.valueNode.map
               THEN [root |-> SetSlot(m.root, r.path, r.index,
                                [r.valueNode EXCEPT !.map =
                                   [p \in (DOMAIN @) \ {PropName(key)} |-> @[p]]]),
                     size |-> m.size - 1]
               ELSE m

MapGetSize(m) == m.size

\* An updater is one of
\*   [kind |-> "ret", v |-> x]   returns x (x is never undefined)
\*   [kind |-> "mut", v |-> x]   changes the value it is handed in place so that
\*                               it reads x, and returns undefined
\*   [kind |-> "noop"]           returns undefined and changes nothing
\* Handed undefined, an in-place updater throws a TypeError.
UpdaterReturn(f, value) == IF f.kind = "ret" THEN f.v ELSE Undefined

UpdaterStored(f, value) == IF f.kind = "mut" THEN f.v ELSE value

UpdaterThrows(f, value) == f.kind = "mut" /\ value = Undefined

\* MapAdapter.update: the map after the call, the value returned, whether the
\* updater was invoked and whether it threw
MapUpdate(m, key, f) ==
  LET r == lookupValueNode(m, key)
  IN IF r.valueNode.type = "undefined"
     THEN [map |-> m, ret |-> Undefined, invoked |-> FALSE, threw |-> FALSE]
     ELSE IF r.depth < maxDepth
          THEN LET value  == r.valueNode.value
                   retVal == UpdaterReturn(f, value)
               IN IF UpdaterThrows(f, value)
                  THEN [map |-> m, ret |-> Undefined, invoked |-> TRUE, threw |-> TRUE]
                  ELSE IF retVal # Undefined
                       THEN [map |-> [m EXCEPT !.root = SetSlot(m.root, r.path, r.index,
                                         [r.valueNode EXCEPT !.value = retVal])],
                             ret |-> retVal, invoked |-> TRUE, threw |-> FALSE]
                       ELSE [map |-> [m EXCEPT !.root = SetSlot(m.root, r.path, r.index,
                                         [r.valueNode EXCEPT !.value = UpdaterStored(f, value)])],
                             ret |-> UpdaterStored(f, value), invoked |-> TRUE, threw |-> FALSE]
          ELSE LET present == PropName(key) \in DOMAIN r.valueNode.map
                   value   == IF present THEN r.valueNode.map[PropName(key)].value
                              ELSE Undefined
                   retVal  == UpdaterReturn(f, value)
               IN IF UpdaterThrows(f, value)
                  THEN [map |-> m, ret |-> Undefined, invoked |-> TRUE, threw |-> TRUE]
                  ELSE IF retVal # Undefined
                       THEN [map |-> [m EXCEPT !.root = SetSlot(m.root, r.path, r.index,
                                         [r.valueNode EXCEPT !.map =
                                            (PropName(key) :> createSingleValueNode(key, retVal)) @@ @])],
                             ret |-> retVal, invoked |-> TRUE, threw |-> FALSE]
                       ELSE IF present
                            THEN [map |-> [m EXCEPT !.root = SetSlot(m.root, r.path, r.index,
                                              [r.valueNode EXCEPT !.map[PropName(key)].value =
                                                 UpdaterStored(f, value)])],
                                  ret |-> UpdaterStored(f, value), invoked |-> TRUE, threw |-> FALSE]
                            ELSE [map |-> m, ret |-> Undefined, invoked |-> TRUE, threw |-> FALSE]

\* The number of [key, value] pairs the iterator of getIterable produces from
\* the frame {content, index}: a trie node is walked slot by slot (an empty
\* slot is skipped), a single-value node gives one pair, and a multi-value
\* node is replaced by the array of the single-value nodes of its map.
RECURSIVE traverseCount(_, _)
traverseCount(content, index) ==
  IF content.type = "trie"
  THEN IF index >= trieNodeSize THEN 0
       ELSE IF index \notin DOMAIN content.slots THEN traverseCount(content, index + 1)
       ELSE traverseCount(content.slots[index], 0) + traverseCount(content, index + 1)
  ELSE IF content.type = "single" THEN 1
  ELSE Cardinality(DOMAIN content.map)

\* The [key, value] pairs the iterator of getIterable produces from a node,
\* as a set: a single-value node gives [value.key, value.value], a multi-value
\* node the pairs of the single-value nodes of its map (Object.keys order).
RECURSIVE traversePairs(_)
traversePairs(content) ==
  IF content.type = "trie"
  THEN UNION {traversePairs(content.slots[i]) : i \in DOMAIN content.slots}
  ELSE IF content.type = "single" THEN {<<content.key, content.value>>}
  ELSE {<<content.map[p].key, content.map[p].value>> : p \in DOMAIN content.map}

\* the set of the pairs of Array.from(adapter.getIterable(map))
MapIterationPairs(m) == traversePairs(m.root)

\* the number of pairs of Array.from(adapter.getIterable(map))
MapIterationCount(m) == traverseCount(m.root, 0)

\* --------------------------------------------------------------------------
\* sortedcollection.ts : SortedCollectionAdapter, the B-tree
\* --------------------------------------------------------------------------
\* A node is [isRoot, leaf, items, children]: leaf is `children === undefined`,
\* items the values of its IBTreeValueNodes, children its child nodes (empty
\* for a leaf).  A stored value is [key, order, prim]: prim says that it is a
\* primitive number (its key and its order are then that number), otherwise it
\* is an object with the fields key and order.

maxItemsPerLevel == adapter.maxItemsPerLevel

minItemsPerLevel == maxItemsPerLevel \div 2

\* The adapter of the collection tests: {orderComparer: (a, b) => a - b (on
\* objects a.order - b.order), maxItemsPerLevel: 4}
TestMaxItemsPerLevel == 4

TestCollectionAdapter ==
  [maxItemsPerLevel |-> TestMaxItemsPerLevel, orderComparer |-> "difference"]

\* a % b of JavaScript for b > 0: the remainder has the sign of a
JsRemainder(a, b) == IF a >= 0 THEN a % b ELSE 0 - ((0 - a) % b)

\* args.maxItemsPerLevel || MAX_ITEMS_PER_LEVEL: undefined and 0 give the
\* default.  The argument is undefined or the number [n |-> n].
maxItemsPerLevelOf(arg) ==
  IF arg = Undefined THEN MAX_ITEMS_PER_LEVEL
  ELSE IF arg.n = 0 THEN MAX_ITEMS_PER_LEVEL
  ELSE arg.n

\* new SortedCollectionAdapter({orderComparer: (a, b) => a - b,
\* maxItemsPerLevel: arg}): whether the constructor threw, and the adapter
SortedCollectionAdapterNew(arg) ==
  [threw   |-> \/ JsRemainder(maxItemsPerLevelOf(arg), 2) = 1
               \/ maxItemsPerLevelOf(arg) < 3,
   adapter |-> [maxItemsPerLevel |-> maxItemsPerLevelOf(arg),
                orderComparer |-> "difference"]]

\* The adapter SortedMapAdapter's constructor builds: the default comparer
\* (a.order < b.order ? -1 : a.order > b.order ? 1 : 0), equality of the keys
\* and the default maxItemsPerLevel
SortedMapCollectionAdapter ==
  [maxItemsPerLevel |-> MAX_ITEMS_PER_LEVEL, orderComparer |-> "default"]

orderComparer(a, b) ==
  IF adapter.orderComparer = "difference" THEN a.order - b.order
  ELSE IF a.order < b.order THEN 0 - 1
  ELSE IF a.order > b.order THEN 1
  ELSE 0

equalityComparer(a, b) == a.key = b.key

\* the truthiness of a value: among the values of the model undefined and the
\* number 0 are falsy
Truthy(v) ==
  IF v = Undefined THEN FALSE
  ELSE IF v.prim THEN v.order # 0
  ELSE TRUE

createBTreeNode(items, children, leaf) ==
  [isRoot |-> FALSE, leaf |-> leaf, items |-> items, children |-> children]

createBTreeRootNode ==
  [root |-> [isRoot |-> TRUE, leaf |-> TRUE, items |-> <<>>, children |-> <<>>], size |-> 0]

isLeafNode(node) == node.leaf

\* the node reached from `node` by a path of child indexes
RECURSIVE NodeAt(_, _)
NodeAt(node, cpath) ==
  IF cpath = <<>> THEN node ELSE NodeAt(At(node.children, Head(cpath)), Tail(cpath))

\* `node` with the node at cpath replaced by n
RECURSIVE ReplaceAt(_, _, _)
ReplaceAt(node, cpath, n) ==
  IF cpath = <<>> THEN n
  ELSE [node EXCEPT !.children[Head(cpath) + 1] = ReplaceAt(@, Tail(cpath), n)]

RECURSIVE binarySearch(_, _, _, _)
binarySearch(items, value, low, high) ==
  IF high < low THEN low
  ELSE LET mid        == low + ((high - low) \div 2)
           comparison == orderComparer(value, At(items, mid))
       IN IF comparison < 0 THEN binarySearch(items, value, low, mid - 1)
          ELSE IF comparison > 0 THEN binarySearch(items, value, mid + 1, high)
          ELSE mid

binarySearchForInsertion(items, value) ==
  IF Len(items) = 0 THEN 0
  ELSE IF orderComparer(value, At(items, Len(items) - 1)) >= 0 THEN Len(items)
  ELSE IF orderComparer(value, At(items, 0)) <= 0 THEN 0
  ELSE binarySearch(items, value, 1, Len(items) - 2)

binarySearchForLookup(items, value) ==
  IF Len(items) = 0 THEN 0 ELSE binarySearch(items, value, 0, Len(items) - 1)

\* an insertion point that is always the end of the leaf
findLeafNodeInsertionPointAtEnd(leafNode, value) == Len(leafNode.items)

findLeafNodeInsertionPoint(leafNode, value) == binarySearchForInsertion(leafNode.items, value)

findRecursionIndex(node, value) == binarySearchForInsertion(node.items, value)

\* a splitNode whose left half does not take the children along
splitNodeWithoutChildren(node) ==
  LET midpoint == Len(node.items) \div 2
  IN [left  |-> createBTreeNode(Slice(node.items, 0, midpoint), <<>>, TRUE),
      mid   |-> At(node.items, midpoint),
      right |-> createBTreeNode(Slice(node.items, midpoint + 1, Len(node.items)),
                                IF node.leaf THEN <<>>
                                ELSE Slice(node.children, midpoint + 1, Len(node.children)),
                                node.leaf)]

splitNode(node) ==
  LET midpoint == Len(node.items) \div 2
  IN [left  |-> createBTreeNode(Slice(node.items, 0, midpoint),
                                IF node.leaf THEN <<>> ELSE Slice(node.children, 0, midpoint + 1),
                                node.leaf),
      mid   |-> At(node.items, midpoint),
      right |-> createBTreeNode(Slice(node.items, midpoint + 1, Len(node.items)),
                                IF node.leaf THEN <<>>
                                ELSE Slice(node.children, midpoint + 1, Len(node.children)),
                                node.leaf)]

splitLeafNodeLeftHeavy(node) ==
  [left  |-> createBTreeNode(Slice(node.items, 0, Len(node.items) - 2), <<>>, TRUE),
   mid   |-> At(node.items, Len(node.items) - 2),
   right |-> createBTreeNode(<<At(node.items, Len(node.items) - 1)>>, <<>>, TRUE)]

\* a right-heavy split that keeps the separator in the right leaf as well
splitLeafNodeRightHeavyKeepingMid(node) ==
  [left  |-> createBTreeNode(<<At(node.items, 0)>>, <<>>, TRUE),
   mid   |-> At(node.items, 1),
   right |-> createBTreeNode(Slice(node.items, 1, Len(node.items)), <<>>, TRUE)]

splitLeafNodeRightHeavy(node) ==
  [left  |-> createBTreeNode(<<At(node.items, 0)>>, <<>>, TRUE),
   mid   |-> At(node.items, 1),
   right |-> createBTreeNode(Slice(node.items, 2, Len(node.items)), <<>>, TRUE)]

\* the test of insertInBTreeNode for splitting a node it was called on with a
\* parent
IsFull(node) ==
  \/ isLeafNode(node) /\ Len(node.items) >= maxItemsPerLevel
  \/ ~isLeafNode(node) /\ Len(node.children) >= maxItemsPerLevel

\* the choice that splits every node in half
splitChosenInHalf(root, cpath) == splitNode(NodeAt(root, cpath))

\* the choice `isRightMostLeaf ? splitLeafNodeLeftHeavy(node) : isLeftMostLeaf ?
\* splitLeafNodeRightHeavy(node) : splitNode(node)` for the node at cpath; the
\* root is called with parentIndex undefined
splitChosen(root, cpath) ==
  IF cpath # <<>> /\ isLeafNode(NodeAt(root, cpath))
        /\ cpath[Len(cpath)]
             = Len(NodeAt(root, SubSeq(cpath, 1, Len(cpath) - 1)).children) - 1
  THEN splitLeafNodeLeftHeavy(NodeAt(root, cpath))
  ELSE IF cpath # <<>> /\ isLeafNode(NodeAt(root, cpath)) /\ cpath[Len(cpath)] = 0
  THEN splitLeafNodeRightHeavy(NodeAt(root, cpath))
  ELSE splitNode(NodeAt(root, cpath))

\* The tree after the split of insertInBTreeNode on the full node at cpath,
\* before it calls itself on the parent: the root takes mid as its only item
\* and left and right as its children; any other parent gets left and right
\* in place of the node (children.splice(parentIndex, 1, left, right)) and mid
\* at parentIndex of its items.
splitFullNode(root, cpath) ==
  IF cpath = <<>>
  THEN [isRoot |-> TRUE, leaf |-> FALSE, items |-> <<splitChosen(root, cpath).mid>>,
        children |-> <<splitChosen(root, cpath).left, splitChosen(root, cpath).right>>]
  ELSE ReplaceAt(root, SubSeq(cpath, 1, Len(cpath) - 1),
         [NodeAt(root, SubSeq(cpath, 1, Len(cpath) - 1)) EXCEPT
            !.children = Slice(@, 0, cpath[Len(cpath)])
                           \o <<splitChosen(root, cpath).left, splitChosen(root, cpath).right>>
                           \o Slice(@, cpath[Len(cpath)] + 1, Len(@)),
            !.items = InsertAt(@, cpath[Len(cpath)], splitChosen(root, cpath).mid)])

\* insertInBTreeNode(node, parent, parentIndex, value), node being the node at
\* cpath.  call = "top"    : insert's call (root, root, undefined, value)
\*         call = "child"  : the descent (child, node, recursionIndex, value)
\*         call = "parent" : the restart after a split (parent, undefined, undefined, value)
\* The result is the root after the call.
RECURSIVE insertInBTreeNode(_, _, _, _)
insertInBTreeNode(root, cpath, call, value) ==
  LET node   == NodeAt(root, cpath)
      isLeaf == isLeafNode(node)
      full   == \/ isLeaf /\ Len(node.items) >= maxItemsPerLevel
                \/ ~isLeaf /\ Len(node.children) >= maxItemsPerLevel
  IN IF call # "parent" /\ full
     THEN IF call = "top"
          THEN LET sp == splitNode(node)
               IN insertInBTreeNode(
                    [isRoot |-> TRUE, leaf |-> FALSE, items |-> <<sp.mid>>,
                     children |-> <<sp.left, sp.right>>],
                    <<>>, "parent", value)
          ELSE LET parentPath  == SubSeq(cpath, 1, Len(cpath) - 1)
                   parent      == NodeAt(root, parentPath)
                   parentIndex == cpath[Len(cpath)]
                   isRightMostLeaf == isLeaf /\ parentIndex = Len(parent.children) - 1
                   isLeftMostLeaf  == isLeaf /\ parentIndex = 0
                   sp == IF isRightMostLeaf THEN splitLeafNodeLeftHeavy(node)
                         ELSE IF isLeftMostLeaf THEN splitLeafNodeRightHeavy(node)
                         ELSE splitNode(node)
                   newParent ==
                     [parent EXCEPT
                        !.children = Slice(@, 0, parentIndex) \o <<sp.left, sp.right>> \o
                                     Slice(@, parentIndex + 1, Len(@)),
                        !.items = InsertAt(@, parentIndex, sp.mid)]
               IN insertInBTreeNode(ReplaceAt(root, parentPath, newParent),
                                    parentPath, "parent", value)
     ELSE IF isLeaf
          THEN LET insertionIndex == findLeafNodeInsertionPoint(node, value)
               IN ReplaceAt(root, cpath,
                    [node EXCEPT !.items =
                       IF insertionIndex >= Len(node.items) THEN Append(@, value)
                       ELSE InsertAt(@, insertionIndex, value)])
          ELSE insertInBTreeNode(root, Append(cpath, findRecursionIndex(node, value)),
                                 "child", value)

\* SortedCollectionAdapter.insert
CollInsert(c, value) ==
  [root |-> insertInBTreeNode(c.root, <<>>, "top", value), size |-> c.size + 1]

CollGetSize(c) == c.size

\* What getForwardIterable yields from a frame [index, onChildren] of `node` to
\* the end of that frame (traverseToFurthestLeft): the child at index when
\* onChildren, then the item at index, and so on; the frame is popped when
\* neither an item nor a child is left at index.  A frame that is on a child
\* the node does not have ends the iteration (a TypeError in the code).
RECURSIVE ForwardFrom(_, _, _)
ForwardFrom(node, index, onChildren) ==
  IF \/ index < Len(node.items)
     \/ ~node.leaf /\ onChildren /\ index < Len(node.children)
  THEN IF ~node.leaf /\ onChildren
       THEN IF ~Has(node.children, index) THEN <<>>
            ELSE ForwardFrom(At(node.children, index), 0, TRUE) \o
                 ForwardFrom(node, index, FALSE)
       ELSE <<At(node.items, index)>> \o ForwardFrom(node, index + 1, TRUE)
  ELSE <<>>

CollForward(c) == ForwardFrom(c.root, 0, TRUE)

\* The stack of getForwardIterable: `const stack` is made once per call of
\* getForwardIterable, outside [Symbol.iterator], so every iterator of the
\* returned object works on the same stack.  A frame holds the node whose
\* items and children it walks.
ForwardStack(c) == <<[index |-> 0, onChildren |-> TRUE, node |-> c.root]>>

\* traverseToFurthestLeft(stack[stack.length - 1]): the value found, undefined
\* when no frame is left, and the stack it leaves
RECURSIVE traverseToFurthestLeft(_)
traverseToFurthestLeft(stack) ==
  IF stack = <<>> THEN [value |-> Undefined, stack |-> stack]
  ELSE IF \/ stack[Len(stack)].index < Len(stack[Len(stack)].node.items)
          \/ /\ ~stack[Len(stack)].node.leaf
             /\ stack[Len(stack)].onChildren
             /\ stack[Len(stack)].index < Len(stack[Len(stack)].node.children)
  THEN IF ~stack[Len(stack)].node.leaf /\ stack[Len(stack)].onChildren
       THEN traverseToFurthestLeft(
              Append([stack EXCEPT ![Len(stack)].onChildren = FALSE],
                     [index |-> 0, onChildren |-> TRUE,
                      node |-> At(stack[Len(stack)].node.children,
                                  stack[Len(stack)].index)]))
       ELSE [value |-> At(stack[Len(stack)].node.items, stack[Len(stack)].index),
             stack |-> [stack EXCEPT ![Len(stack)].index = @ + 1,
                                     ![Len(stack)].onChildren = TRUE]]
  ELSE traverseToFurthestLeft(SubSeq(stack, 1, Len(stack) - 1))

\* next() of an iterator of the object until it reports done (`value !==
\* undefined` fails): the values yielded after acc and the stack that is left
RECURSIVE IterateFrom(_, _)
IterateFrom(stack, acc) ==
  IF traverseToFurthestLeft(stack).value = Undefined
  THEN [items |-> acc, stack |-> traverseToFurthestLeft(stack).stack]
  ELSE IterateFrom(traverseToFurthestLeft(stack).stack,
                   Append(acc, traverseToFurthestLeft(stack).value))

\* SortedCollectionAdapter.getIterable(collection): the object it returns
CollGetIterable(c) == [kind |-> "collection", stack |-> ForwardStack(c)]

\* the index of the first frame getBackwardIterable makes for `node`
BackwardStart(node) ==
  IF ~node.leaf THEN Len(node.children) - 1 ELSE Len(node.items)

\* What getBackwardIterable yields from a frame [index, onChildren] of `node`
\* to the end of that frame (traverseToFurthestRight): the child at index when
\* onChildren, then the item before index, and so on; the frame is popped
\* when index is 0 and no child is left to visit.
RECURSIVE BackwardFrom(_, _, _)
BackwardFrom(node, index, onChildren) ==
  IF \/ index > 0
     \/ ~node.leaf /\ onChildren /\ index >= 0
  THEN IF ~node.leaf /\ onChildren
       THEN IF ~Has(node.children, index) THEN <<>>
            ELSE BackwardFrom(At(node.children, index),
                              BackwardStart(At(node.children, index)), TRUE) \o
                 BackwardFrom(node, index, FALSE)
       ELSE <<At(node.items, index - 1)>> \o BackwardFrom(node, index - 1, TRUE)
  ELSE <<>>

\* a backward iteration that starts the root's frame past its last child
CollBackwardSkippingLast(c) == BackwardFrom(c.root, Len(c.root.items), FALSE)

\* Array.from(getIterable(collection, 'backward'))
CollBackward(c) == BackwardFrom(c.root, BackwardStart(c.root), TRUE)

\* A LookupNodeInfo is [found, path]: path holds the index of every frame of
\* parentPath, the child index taken at each node above the container and, last,
\* the index of the value in the container's items.
NotFound == [found |-> FALSE, path |-> <<>>]

\* _lookupValuePath without its loop over prev
lookupPrevLoopSkipped(root, cpath, value, prev) == NotFound

RECURSIVE lookupValuePathIn(_, _, _)
RECURSIVE lookupNextLoop(_, _, _, _)
RECURSIVE lookupPrevLoop(_, _, _, _)

\* the loop `for (let next = index; ; next++)` of _lookupValuePath, then the
\* loop over prev (from `index - 1`) when it breaks
lookupNextLoop(root, cpath, value, st) ==
  LET node == NodeAt(root, cpath)
      next == st.next
      hasNext == Has(node.items, next)
  IN IF hasNext /\ equalityComparer(At(node.items, next), value)
     THEN [found |-> TRUE, path |-> Append(cpath, next)]
     ELSE IF ~node.leaf /\ ~Has(node.children, next)
          THEN lookupPrevLoop(root, cpath, value, st.index - 1)
          ELSE LET sub == IF node.leaf THEN NotFound
                          ELSE lookupValuePathIn(root, Append(cpath, next), value)
               IN IF sub.found THEN sub
                  ELSE IF ~hasNext \/ orderComparer(value, At(node.items, next)) # 0
                       THEN lookupPrevLoop(root, cpath, value, st.index - 1)
                       ELSE lookupNextLoop(root, cpath, value, [st EXCEPT !.next = next + 1])

\* the loop `for (let prev = index - 1; ; prev--)` of _lookupValuePath
lookupPrevLoop(root, cpath, value, prev) ==
  LET node == NodeAt(root, cpath)
      hasPrev == Has(node.items, prev)
  IN IF hasPrev /\ equalityComparer(At(node.items, prev), value)
     THEN [found |-> TRUE, path |-> Append(cpath, prev)]
     ELSE IF ~node.leaf /\ ~Has(node.children, prev)
          THEN NotFound
          ELSE LET sub == IF node.leaf THEN NotFound
                          ELSE lookupValuePathIn(root, Append(cpath, prev), value)
               IN IF sub.found THEN sub
                  ELSE IF ~hasPrev \/ orderComparer(value, At(node.items, prev)) # 0
                       THEN NotFound
                       ELSE lookupPrevLoop(root, cpath, value, prev - 1)

\* _lookupValuePath(node, value, parentPath), node being the node at cpath
lookupValuePathIn(root, cpath, value) ==
  LET node  == NodeAt(root, cpath)
      index == binarySearchForLookup(node.items, value)
  IN IF Has(node.items, index) /\ equalityComparer(At(node.items, index), value)
     THEN [found |-> TRUE, path |-> Append(cpath, index)]
     ELSE lookupNextLoop(root, cpath, value, [index |-> index, next |-> index])

lookupValuePath(c, value) == lookupValuePathIn(c.root, <<>>, value)

\* the value a found path addresses
ValueAtPath(root, path) ==
  At(NodeAt(root, SubSeq(path, 1, Len(path) - 1)).items, path[Len(path)])

\* lookupRightMostValueWithParentPath: the indexes it appends to parentPath
RECURSIVE rightMostPath(_)
rightMostPath(node) ==
  IF isLeafNode(node) THEN <<Len(node.items) - 1>>
  ELSE <<Len(node.children) - 1>> \o rightMostPath(At(node.children, Len(node.children) - 1))

\* What the model does not follow: removeByPath finding the rightmost leaf of
\* the left subtree empty (it then turns to the right subtree with a path whose
\* indexes are those of the left one) and rebalance finding a deficient node
\* that has no sibling (it then throws a TypeError).  Both end in BrokenTree;
\* CollNeverBroken states that no run gets there.
BrokenTree ==
  [isRoot |-> TRUE, leaf |-> TRUE, items |-> <<>>, children |-> <<>>, broken |-> TRUE]

\* isNodeDeficient answering that no node is deficient
isNodeDeficientNever(node, isLeaf) == FALSE

isNodeDeficient(node, isLeaf) ==
  \/ isLeaf /\ Len(node.items) < minItemsPerLevel
  \/ ~isLeaf /\ Len(node.children) < minItemsPerLevel

\* canNodeLoseItem answering that every node can give an item
canNodeLoseItemAlways(node, isLeaf) == TRUE

canNodeLoseItem(node, isLeaf) ==
  \/ isLeaf /\ Len(node.items) > minItemsPerLevel
  \/ ~isLeaf /\ Len(node.children) > minItemsPerLevel

\* rebalance(parentPath), the last frame's node being the node at cpath; the
\* result is the root after the call
RECURSIVE rebalance(_, _)
rebalance(root, cpath) ==
  LET node   == NodeAt(root, cpath)
      isLeaf == isLeafNode(node)
  IN IF node.isRoot THEN root
     ELSE IF ~isNodeDeficient(node, isLeaf) THEN root
     ELSE
       LET parentPath == SubSeq(cpath, 1, Len(cpath) - 1)
           parent     == NodeAt(root, parentPath)
           pindex     == cpath[Len(cpath)]
           hasRight   == Has(parent.children, pindex + 1)
           hasLeft    == Has(parent.children, pindex - 1)
           rightSibling == At(parent.children, pindex + 1)
           leftSibling  == At(parent.children, pindex - 1)
       IN IF hasRight /\ canNodeLoseItem(rightSibling, isLeaf)
          THEN LET rightItem == At(rightSibling.items, 0)
                   separator == At(parent.items, pindex)
                   newNode  == [node EXCEPT
                                  !.items = Append(@, separator),
                                  !.children = IF isLeaf THEN @
                                               ELSE Append(@, At(rightSibling.children, 0))]
                   newRight == [rightSibling EXCEPT
                                  !.items = Tail(@),
                                  !.children = IF isLeaf THEN @ ELSE Tail(@)]
               IN ReplaceAt(root, parentPath,
                    [parent EXCEPT
                       !.items = SetAt(@, pindex, rightItem),
                       !.children = SetAt(SetAt(@, pindex, newNode), pindex + 1, newRight)])
          ELSE IF hasLeft /\ canNodeLoseItem(leftSibling, isLeaf)
          THEN LET leftItem  == At(leftSibling.items, Len(leftSibling.items) - 1)
                   separator == At(parent.items, pindex - 1)
                   newNode == [node EXCEPT
                                 !.items = <<separator>> \o @,
                                 !.children =
                                   IF isLeaf THEN @
                                   ELSE <<At(leftSibling.children,
                                             Len(leftSibling.children) - 1)>> \o @]
                   newLeft == [leftSibling EXCEPT
                                 !.items = Slice(@, 0, Len(@) - 1),
                                 !.children = IF isLeaf THEN @ ELSE Slice(@, 0, Len(@) - 1)]
               IN ReplaceAt(root, parentPath,
                    [parent EXCEPT
                       !.items = SetAt(@, pindex - 1, leftItem),
                       !.children = SetAt(SetAt(@, pindex, newNode), pindex - 1, newLeft)])
          ELSE IF ~hasLeft /\ ~hasRight THEN BrokenTree
          ELSE
            LET sepIndex  == IF hasLeft THEN pindex - 1 ELSE pindex
                separator == At(parent.items, sepIndex)
                copyInto  == IF hasLeft THEN leftSibling ELSE node
                copyFrom  == IF hasLeft THEN node ELSE rightSibling
                merged    == [copyInto EXCEPT
                                !.items = (@ \o <<separator>>) \o copyFrom.items,
                                !.children = IF isLeaf THEN @ ELSE @ \o copyFrom.children]
                intoIndex == IF hasLeft THEN pindex - 1 ELSE pindex
                newParent == [parent EXCEPT
                                !.items = RemoveAt(@, sepIndex),
                                !.children =
                                  SetAt(RemoveAt(@, IF hasLeft THEN pindex ELSE pindex + 1),
                                        intoIndex, merged)]
            IN IF Len(newParent.items) = 0 /\ newParent.isRoot
               THEN ReplaceAt(root, parentPath,
                      [newParent EXCEPT !.items = merged.items,
                                        !.children = merged.children,
                                        !.leaf = merged.leaf])
               ELSE rebalance(ReplaceAt(root, parentPath, newParent), parentPath)

\* a removeByPath that leaves the value where it is
removeByPathLeavingIt(root, path) == root

\* removeByPath(nodeInfo): the root after the call
removeByPath(root, path) ==
  LET cpath     == SubSeq(path, 1, Len(path) - 1)
      index     == path[Len(path)]
      container == NodeAt(root, cpath)
      removed   == [container EXCEPT !.items = RemoveAt(@, index)]
  IN IF isLeafNode(container)
     THEN rebalance(ReplaceAt(root, cpath, removed), cpath)
     ELSE LET leftSibling == At(container.children, index)
              donorPath   == path \o rightMostPath(leftSibling)
              leafPath    == SubSeq(donorPath, 1, Len(donorPath) - 1)
              donorLeaf   == NodeAt(root, leafPath)
          IN IF Len(donorLeaf.items) = 0 THEN BrokenTree
             ELSE LET valueNode == At(donorLeaf.items, Len(donorLeaf.items) - 1)
                      root1 == ReplaceAt(root, cpath,
                                 [removed EXCEPT !.items = InsertAt(@, index, valueNode)])
                      root2 == ReplaceAt(root1, leafPath,
                                 [donorLeaf EXCEPT !.items = Slice(@, 0, donorPath[Len(donorPath)])])
                  IN rebalance(root2, leafPath)

\* SortedCollectionAdapter.remove
\* a remove without `if (existingInfo === undefined) return;`
CollRemoveUnchecked(c, value) ==
  [root |-> IF lookupValuePath(c, value).found
            THEN removeByPath(c.root, lookupValuePath(c, value).path)
            ELSE c.root,
   size |-> c.size - 1]

CollRemove(c, value) ==
  LET existingInfo == lookupValuePath(c, value)
  IN IF ~existingInfo.found THEN c
     ELSE [root |-> removeByPath(c.root, existingInfo.path), size |-> c.size - 1]

\* the frames of a found path: frame j is the node at path[1..j-1], its index
\* is path[j]
FrameNode(root, path, j) == NodeAt(root, SubSeq(path, 1, j - 1))

RECURSIVE getFurthestLeftValue(_)
getFurthestLeftValue(node) ==
  IF isLeafNode(node)
  THEN (IF Len(node.items) # 0 THEN At(node.items, 0) ELSE Undefined)
  ELSE getFurthestLeftValue(At(node.children, 0))

RECURSIVE getFurthestRightValue(_)
getFurthestRightValue(node) ==
  IF isLeafNode(node)
  THEN (IF Len(node.items) # 0 THEN At(node.items, Len(node.items) - 1) ELSE Undefined)
  ELSE getFurthestRightValue(At(node.children, Len(node.children) - 1))

\* SortedCollectionAdapter.getFirst
CollGetFirst(c) ==
  IF Len(c.root.items) = 0 THEN Undefined ELSE getFurthestLeftValue(c.root)

\* SortedCollectionAdapter.getLast
CollGetLast(c) ==
  IF Len(c.root.items) = 0 THEN Undefined ELSE getFurthestRightValue(c.root)

\* the loop of getPreviousValue over the frames above the container, frame i
RECURSIVE previousInParents(_, _, _)
previousInParents(root, path, i) ==
  IF i < 1 THEN Undefined
  ELSE LET node == FrameNode(root, path, i)
       IN IF Has(node.items, path[i] - 1) THEN At(node.items, path[i] - 1)
          ELSE previousInParents(root, path, i - 1)

\* a getPreviousValue that never finds a preceding value
getPreviousValueNone(root, path) == Undefined

getPreviousValue(root, path) ==
  LET container == FrameNode(root, path, Len(path))
      index     == path[Len(path)]
  IN IF isLeafNode(container)
     THEN (IF index > 0 THEN At(container.items, index - 1)
           ELSE previousInParents(root, path, Len(path) - 1))
     ELSE getFurthestRightValue(At(container.children, index))

\* the loop of getNextValue over the frames above the container, frame i
RECURSIVE nextInParents(_, _, _)
nextInParents(root, path, i) ==
  IF i < 1 THEN Undefined
  ELSE LET node == FrameNode(root, path, i)
       IN IF Has(node.items, path[i]) THEN At(node.items, path[i])
          ELSE nextInParents(root, path, i - 1)

getNextValue(root, path) ==
  LET container == FrameNode(root, path, Len(path))
      index     == path[Len(path)]
  IN IF isLeafNode(container)
     THEN (IF index < Len(container.items) - 1 THEN At(container.items, index + 1)
           ELSE nextInParents(root, path, Len(path) - 1))
     ELSE getFurthestLeftValue(At(container.children, index + 1))

\* an ensureSortedOrderOfNode that leaves the value where it is
ensureSortedOrderOfNodeLeavingIt(c, path) == c

\* SortedCollectionAdapter.ensureSortedOrderOfNode, nodeInfo being the path
ensureSortedOrderOfNode(c, path) ==
  LET precedingItem == getPreviousValue(c.root, path)
      nextItem      == getNextValue(c.root, path)
      value         == ValueAtPath(c.root, path)
  IN IF \/ Truthy(precedingItem) /\ orderComparer(value, precedingItem) < 0
        \/ Truthy(nextItem) /\ orderComparer(value, nextItem) > 0
     THEN CollInsert([root |-> removeByPath(c.root, path), size |-> c.size - 1], value)
     ELSE c

\* the collection with the value a path addresses replaced (a change in place)
SetValueAtPath(root, path, value) ==
  LET cpath == SubSeq(path, 1, Len(path) - 1)
      node  == NodeAt(root, cpath)
  IN ReplaceAt(root, cpath, [node EXCEPT !.items = SetAt(@, path[Len(path)], value)])

\* SortedCollectionAdapter.update from `const updated = updater(...)` on
CollUpdateFound(c, path, updated) ==
  ensureSortedOrderOfNode(
    IF updated # Undefined THEN [c EXCEPT !.root = SetValueAtPath(@, path, updated)] ELSE c,
    path)

\* SortedCollectionAdapter.update from `if (!existing) return;` on
CollUpdateOf(c, f, existing) ==
  IF ~existing.found THEN c
  ELSE CollUpdateFound(c, existing.path,
                       UpdaterReturn(f, ValueAtPath(c.root, existing.path)))

\* SortedCollectionAdapter.update: the collection after the call
CollUpdate(c, value, f) == CollUpdateOf(c, f, lookupValuePath(c, value))

\* SortedCollectionAdapter.update: what the call returns, `return;` when the
\* value is not found and `return updated;` when it is
CollUpdateReturnOf(c, f, existing) ==
  IF ~existing.found THEN Undefined
  ELSE UpdaterReturn(f, ValueAtPath(c.root, existing.path))

CollUpdateReturn(c, value, f) == CollUpdateReturnOf(c, f, lookupValuePath(c, value))

\* --------------------------------------------------------------------------
\* sortedmap.ts : SortedMapAdapter
\* --------------------------------------------------------------------------
\* A sorted map is [map, sortedCollection]; the collection holds the tuples
\* {key, order}.  getOrderingKey is that of the runs: v => v on numbers,
\* item => item.order on the wrappers of the LRU cache.

getOrderingKey(value) == value.order

KeyWithOrder(key, order) == [key |-> key, order |-> order, prim |-> FALSE]

SortedMapCreate == [map |-> MapCreate, sortedCollection |-> createBTreeRootNode]

SortedMapGet(sm, key) == MapGet(sm.map, key)

SortedMapHas(sm, key) == MapHas(sm.map, key)

SortedMapGetSize(sm) == CollGetSize(sm.sortedCollection)

\* getIterable: the pairs [key, value] in the order of the collection
SortedMapIterable(sm) ==
  LET items == CollForward(sm.sortedCollection)
  IN [i \in 1..Len(items) |-> <<items[i].key, MapGet(sm.map, items[i].key)>>]

\* The objects getIterable, getKeysIterable and getValuesIterable return:
\* iterableToIterableIterator(mapIterable(collection iterable, transform)).
\* Both wrappers ask the iterable they wrap for a new iterator at every
\* [Symbol.iterator](), so the state of the object is the stack of the
\* collection iterable it was made with.
SortedMapGetIterable(sm, kind) ==
  [kind |-> kind, stack |-> ForwardStack(sm.sortedCollection)]

\* asReadonlyMap(sortedMap): its [Symbol.iterator] calls getIterable(sortedMap)
\* at every traversal, the object itself holds no iterable
SortedMapAsReadonlyMap(sm) == [kind |-> "view", stack |-> <<>>]

\* the transform handed to mapIterable for the tuple `item` of the collection
mapIterableTransform(kind, sm, item) ==
  IF kind = "keys" THEN item.key
  ELSE IF kind = "values" THEN MapGet(sm.map, item.key)
  ELSE <<item.key, MapGet(sm.map, item.key)>>

\* the array of the values in `items`, each one transformed
mapIterable(kind, sm, items) ==
  [i \in 1..Len(items) |-> mapIterableTransform(kind, sm, items[i])]

\* Array.from(iterable) with the stack the new iterator works on: the array
\* and the object afterwards
ArrayFromStack(sm, iterable, r) ==
  [array    |-> IF iterable.kind = "collection" THEN r.items
                ELSE mapIterable(iterable.kind, sm, r.items),
   iterable |-> IF iterable.kind = "view" THEN iterable
                ELSE [iterable EXCEPT !.stack = r.stack]]

\* Array.from(iterable): one call of [Symbol.iterator]() and next() until done
ArrayFrom(sm, iterable) ==
  ArrayFromStack(sm, iterable,
    IterateFrom(IF iterable.kind = "view" THEN ForwardStack(sm.sortedCollection)
                ELSE iterable.stack, <<>>))

\* the object stored under a present key after the updater changed it in place
StoreInPlace(m, key, value) == MapSet(m, key, value)

\* SortedMapAdapter.getFirst
SortedMapGetFirst(sm) ==
  IF CollGetFirst(sm.sortedCollection) = Undefined THEN Undefined
  ELSE MapGet(sm.map, CollGetFirst(sm.sortedCollection).key)

\* SortedMapAdapter.getLast
SortedMapGetLast(sm) ==
  IF CollGetLast(sm.sortedCollection) = Undefined THEN Undefined
  ELSE MapGet(sm.map, CollGetLast(sm.sortedCollection).key)

\* SortedMapAdapter.update from `const updated = updater(existing)` on:
\* existing is the value of the key in the trie, path the path of its tuple
SortedMapUpdateFound(sm, key, f, existing, path) ==
  LET c        == sm.sortedCollection
      updated  == UpdaterReturn(f, existing)
      mutated  == UpdaterStored(f, existing)
      map1     == IF mutated # existing
                  THEN StoreInPlace(sm.map, key, mutated) ELSE sm.map
      map2     == IF updated # Undefined
                  THEN MapSet(map1, key, updated) ELSE map1
      updatedOrExisting  == IF Truthy(updated) THEN updated ELSE mutated
      updatedOrderingKey == getOrderingKey(updatedOrExisting)
      tuple    == ValueAtPath(c.root, path)
      c2       == IF tuple.order # updatedOrderingKey
                  THEN ensureSortedOrderOfNode(
                         [c EXCEPT !.root =
                            SetValueAtPath(@, path,
                              [tuple EXCEPT !.order = updatedOrderingKey])],
                         path)
                  ELSE c
  IN [sortedMap |-> [map |-> map2, sortedCollection |-> c2],
      ret |-> updatedOrExisting, invoked |-> TRUE, threw |-> FALSE]

\* SortedMapAdapter.update from the lookup of the tuple on: existingSorted is
\* what lookupValuePath returned for {key, order: getOrderingKey(existing)}
SortedMapUpdateExisting(sm, key, f, existing, existingSorted) ==
  IF ~existingSorted.found
  THEN [sortedMap |-> sm, ret |-> Undefined, invoked |-> FALSE, threw |-> TRUE]
  ELSE SortedMapUpdateFound(sm, key, f, existing, existingSorted.path)

\* an update without `if (!existing) return;` for an absent key: it hands
\* undefined to the updater and stores what the updater returns
SortedMapUpdateOfAbsentToo(sm, key, f, existing) ==
  IF existing = Undefined
  THEN [sortedMap |-> IF UpdaterReturn(f, existing) # Undefined
                      THEN [sm EXCEPT !.map = MapSet(@, key, UpdaterReturn(f, existing))]
                      ELSE sm,
        ret |-> UpdaterReturn(f, existing), invoked |-> TRUE,
        threw |-> UpdaterThrows(f, existing)]
  ELSE SortedMapUpdateExisting(sm, key, f, existing,
         lookupValuePath(sm.sortedCollection,
                         KeyWithOrder(key, getOrderingKey(existing))))

\* SortedMapAdapter.update from `if (!existing) return;` on
SortedMapUpdateOf(sm, key, f, existing) ==
  IF ~Truthy(existing)
  THEN [sortedMap |-> sm, ret |-> Undefined, invoked |-> FALSE, threw |-> FALSE]
  ELSE SortedMapUpdateExisting(sm, key, f, existing,
         lookupValuePath(sm.sortedCollection,
                         KeyWithOrder(key, getOrderingKey(existing))))

\* SortedMapAdapter.update: the sorted map after the call, the value returned,
\* whether the updater was invoked and whether the call threw
SortedMapUpdate(sm, key, f) == SortedMapUpdateOf(sm, key, f, MapGet(sm.map, key))

\* what set makes of the result of update
SortedMapSetUpdated(r) == [sortedMap |-> r.sortedMap, threw |-> r.threw]

\* SortedMapAdapter.set: the sorted map after the call and whether it threw
SortedMapSet(sm, key, value) ==
  IF ~MapHas(sm.map, key)
  THEN [sortedMap |->
          [map |-> MapSet(sm.map, key, value),
           sortedCollection |->
             CollInsert(sm.sortedCollection, KeyWithOrder(key, getOrderingKey(value)))],
        threw |-> FALSE]
  ELSE SortedMapSetUpdated(SortedMapUpdate(sm, key, [kind |-> "ret", v |-> value]))

\* a remove that takes the tuple out of the collection and leaves the key in
\* the hash trie
SortedMapRemoveOfTupleOnly(sm, key, existing) ==
  IF existing = Undefined THEN sm
  ELSE [map |-> sm.map,
        sortedCollection |->
          CollRemove(sm.sortedCollection, KeyWithOrder(key, getOrderingKey(existing)))]

\* SortedMapAdapter.remove from `if (existing === undefined) return;` on
SortedMapRemoveOf(sm, key, existing) ==
  IF existing = Undefined THEN sm
  ELSE [map |-> MapRemove(sm.map, key),
        sortedCollection |->
          CollRemove(sm.sortedCollection, KeyWithOrder(key, getOrderingKey(existing)))]

\* SortedMapAdapter.remove
SortedMapRemove(sm, key) == SortedMapRemoveOf(sm, key, MapGet(sm.map, key))

\* --------------------------------------------------------------------------
\* lrucache.ts : LruCacheAdapter
\* --------------------------------------------------------------------------
\* A cache is [map, sortedCollection, nextOrder]; the values of its sorted map
\* are the wrappers {value, order}.

\* the constructor's suggestedSize of the runs
suggestedSize == 10

LruWrapper(value, order) == [value |-> value, order |-> order, prim |-> FALSE]

LruCreate ==
  [map |-> SortedMapCreate.map,
   sortedCollection |-> SortedMapCreate.sortedCollection,
   nextOrder |-> 0]

LruSortedMap(lru) == [map |-> lru.map, sortedCollection |-> lru.sortedCollection]

LruGetSize(lru) == SortedMapGetSize(LruSortedMap(lru))

\* a loop that removes one entry and stops
evictLoopOnce(sm, index, evicted) ==
  LET oldestKey == At(sm.sortedCollection.root.items, index).key
  IN [sortedMap |-> SortedMapRemove(sm, oldestKey), evicted |-> Append(evicted, oldestKey),
      threw |-> FALSE, followed |-> TRUE]

\* The do-while of set: `index` is the index of the one frame of the iterator
\* set created before the loop; the frame reads the items of the root, which
\* the removals of the loop change in place.  next() on a frame that is past
\* the items gives {done: true}, and `.value[0]` then throws a TypeError.  The
\* model follows the frame while the root is a leaf.
RECURSIVE evictLoop(_, _, _)
evictLoop(sm, index, evicted) ==
  LET root == sm.sortedCollection.root
  IN IF ~isLeafNode(root)
     THEN [sortedMap |-> sm, evicted |-> evicted, threw |-> FALSE, followed |-> FALSE]
     ELSE IF index >= Len(root.items)
     THEN [sortedMap |-> sm, evicted |-> evicted, threw |-> TRUE, followed |-> TRUE]
     ELSE LET oldestKey == At(root.items, index).key
          IN Only({ IF SortedMapGetSize(sm1) > suggestedSize
                    THEN evictLoop(sm1, index + 1, Append(evicted, oldestKey))
                    ELSE [sortedMap |-> sm1, evicted |-> Append(evicted, oldestKey),
                          threw |-> FALSE, followed |-> TRUE]
                    : sm1 \in {SortedMapRemove(sm, oldestKey)} })

\* a set whose getNextOrder leaves nextOrder as it is
LruSetEvictedSameOrder(lru, e) ==
  [lru |-> [map |-> e.sortedMap.map,
            sortedCollection |-> e.sortedMap.sortedCollection,
            nextOrder |-> lru.nextOrder],
   evicted |-> e.evicted, threw |-> e.threw, followed |-> e.followed]

\* the cache and the results of set after its eviction e
LruSetEvicted(lru, e) ==
  [lru |-> [map |-> e.sortedMap.map,
            sortedCollection |-> e.sortedMap.sortedCollection,
            nextOrder |-> lru.nextOrder + 1],
   evicted |-> e.evicted, threw |-> e.threw, followed |-> e.followed]

\* set after sortedMapAdapter.set returned r: `size > suggestedSize * 1.1` is
\* 10 * size > 11 * suggestedSize
LruSetStored(lru, r) ==
  LruSetEvicted(lru,
    IF ~r.threw /\ 10 * SortedMapGetSize(r.sortedMap) > 11 * suggestedSize
    THEN evictLoop(r.sortedMap, 0, <<>>)
    ELSE [sortedMap |-> r.sortedMap, evicted |-> <<>>, threw |-> r.threw,
          followed |-> TRUE])

\* LruCacheAdapter.set: the cache after the call, the keys it evicted in the
\* order of their removal, whether it threw
LruSet(lru, key, value) ==
  LruSetStored(lru, SortedMapSet(LruSortedMap(lru), key, LruWrapper(value, lru.nextOrder)))

\* the updater get hands to SortedMapAdapter.update, for the item it will get
LruTouch(lru, item) ==
  IF item = Undefined THEN [kind |-> "noop"]
  ELSE [kind |-> "mut", v |-> [item EXCEPT !.order = lru.nextOrder]]

\* a cache that takes the next order whether or not the updater was invoked
LruUpdatedAdvancing(lru, r) ==
  [lru |-> [map |-> r.sortedMap.map,
            sortedCollection |-> r.sortedMap.sortedCollection,
            nextOrder |-> lru.nextOrder + 1],
   ret |-> IF Truthy(r.ret) THEN r.ret.value ELSE r.ret,
   threw |-> r.threw, invoked |-> r.invoked]

\* the cache and the value returned after sortedMapAdapter.update returned r
LruUpdated(lru, r) ==
  [lru |-> [map |-> r.sortedMap.map,
            sortedCollection |-> r.sortedMap.sortedCollection,
            nextOrder |-> IF r.invoked THEN lru.nextOrder + 1 ELSE lru.nextOrder],
   ret |-> IF Truthy(r.ret) THEN r.ret.value ELSE r.ret,
   threw |-> r.threw, invoked |-> r.invoked]

\* LruCacheAdapter.get: the cache after the call and the value returned
LruGet(lru, key) ==
  LruUpdated(lru,
    SortedMapUpdate(LruSortedMap(lru), key,
                    LruTouch(lru, SortedMapGet(LruSortedMap(lru), key))))

\* a peek that returns what the sorted map holds
LruPeekOfWrapper(lru, key) == SortedMapGet(LruSortedMap(lru), key)

\* LruCacheAdapter.peek
LruPeek(lru, key) ==
  LET existing == SortedMapGet(LruSortedMap(lru), key)
  IN IF Truthy(existing) THEN existing.value ELSE existing

\* LruCacheAdapter.has
LruHas(lru, key) == SortedMapHas(LruSortedMap(lru), key)

\* the updater update hands to SortedMapAdapter.update, for the item it will get
LruUpdater(lru, item, f) ==
  IF item = Undefined THEN [kind |-> "noop"]
  ELSE LET updated == UpdaterReturn(f, item.value)
       IN [kind |-> "mut",
           v |-> [item EXCEPT
                    !.value = IF Truthy(updated) THEN updated
                              ELSE UpdaterStored(f, item.value),
                    !.order = lru.nextOrder]]

\* LruCacheAdapter.update: the cache after the call and the value returned
LruUpdate(lru, key, f) ==
  LruUpdated(lru,
    SortedMapUpdate(LruSortedMap(lru), key,
                    LruUpdater(lru, SortedMapGet(LruSortedMap(lru), key), f)))

\* LruCacheAdapter.remove
LruRemoved(lru, sm) ==
  [map |-> sm.map, sortedCollection |-> sm.sortedCollection, nextOrder |-> lru.nextOrder]

LruRemove(lru, key) == LruRemoved(lru, SortedMapRemove(LruSortedMap(lru), key))

\* LruCacheAdapter.getIterable: the pairs [key, value]
LruIterable(lru) ==
  LET it == SortedMapIterable(LruSortedMap(lru))
  IN [i \in 1..Len(it) |-> <<it[i][1], it[i][2].value>>]

\* --------------------------------------------------------------------------
\* The Map specifications: set, remove (and update) on one hash-trie map
\* --------------------------------------------------------------------------

NumKey(n) == [kind |-> "num", val |-> n]

StrKey(s) == [kind |-> "str", val |-> s]

\* The keys of the runs, with the hashes hash.ts gives them:
\*   1            hash 0x00000001
\*   17           hash 0x00000011   (first nibble as 1, second differs)
\*   "Aa", "BB"   hash 0x00000840 both (identical hashes, no nibble shared with 1)
MapKeys == { NumKey(1), NumKey(17), StrKey(<<65, 97>>), StrKey(<<66, 66>>) }

MaxValue == 1

\* the values of the map runs: the objects {data: n}
MapValues == {[data |-> n, prim |-> FALSE] : n \in 0 .. MaxValue}

MapUpdaters ==
  {[kind |-> "ret", v |-> x] : x \in MapValues} \cup
  {[kind |-> "mut", v |-> x] : x \in MapValues} \cup {[kind |-> "noop"]}

DictPut(d, k, v) == (k :> v) @@ d

DictDel(d, k) == [x \in (DOMAIN d) \ {k} |-> d[x]]

Idle == [op |-> "init"]

InitMap ==
  /\ adapter = SortedMapCollectionAdapter
  /\ map = MapCreate
  /\ coll = <<>>
  /\ nextOrder = 0
  /\ oracle = <<>>
  /\ last = Idle

\* the keys of the runs that also update
UpdateKeys == { NumKey(1), StrKey(<<65, 97>>), StrKey(<<66, 66>>) }

MapSetOn(keys) ==
  \E k \in keys, v \in MapValues :
    /\ map' = MapSet(map, k, v)
    /\ oracle' = DictPut(oracle, k, v)
    /\ last' = [op |-> "set", key |-> k, before |-> map, live |-> DOMAIN oracle]
    /\ UNCHANGED <<adapter, coll, nextOrder>>

MapRemoveOn(keys) ==
  \E k \in keys :
    /\ map' = MapRemove(map, k)
    /\ oracle' = DictDel(oracle, k)
    /\ last' = [op |-> "remove", key |-> k, before |-> map, live |-> DOMAIN oracle]
    /\ UNCHANGED <<adapter, coll, nextOrder>>

\* update can add an entry without counting it (see MapUpdate), after which
\* remove counts below zero: the runs stop updating once the count is MinSize
MinSize == 0

MapUpdateOn(keys) ==
  \E k \in keys, f \in MapUpdaters :
    LET u == MapUpdate(map, k, f)
    IN /\ map.size >= MinSize
       /\ map' = u.map
       /\ oracle' = IF k \in DOMAIN oracle /\ ~UpdaterThrows(f, oracle[k])
                    THEN DictPut(oracle, k,
                           IF f.kind = "ret" THEN f.v ELSE UpdaterStored(f, oracle[k]))
                    ELSE oracle
       /\ last' = [op |-> "update", key |-> k, before |-> map, live |-> DOMAIN oracle,
                   ret |-> u.ret, invoked |-> u.invoked, threw |-> u.threw]
       /\ UNCHANGED <<adapter, coll, nextOrder>>

MapSetAct == MapSetOn(MapKeys)

MapRemoveAct == MapRemoveOn(MapKeys)

NextMapSetRemove == MapSetAct \/ MapRemoveAct

\* set and remove only
SpecMapSetRemove == InitMap /\ [][NextMapSetRemove]_vars

MapSetAct2 == MapSetOn(UpdateKeys)

MapRemoveAct2 == MapRemoveOn(UpdateKeys)

MapUpdateAct == MapUpdateOn(UpdateKeys)

NextMap == MapSetAct2 \/ MapRemoveAct2 \/ MapUpdateAct

\* set, remove and update
SpecMap == InitMap /\ [][NextMap]_vars

\* the dictionary a map reads as, key by key
MapReadsAs(m, d) ==
  /\ \A k \in MapKeys :
       /\ MapHas(m, k) = (k \in DOMAIN d)
       /\ MapGet(m, k) = IF k \in DOMAIN d THEN d[k] ELSE Undefined
  /\ MapGetSize(m) = Cardinality(DOMAIN d)

\* two maps hold the same entries and the same count
MapSameEntries(m1, m2) ==
  /\ \A k \in MapKeys : MapHas(m1, k) = MapHas(m2, k) /\ MapGet(m1, k) = MapGet(m2, k)
  /\ MapGetSize(m1) = MapGetSize(m2)

\* C1: after any sequence of set and remove calls the map reads as the
\* dictionary of the run: get(k) is the last value set for every live key, get
\* is undefined and has is false for every other key, has is true for every
\* live key, and getSize is the number of live keys.
C1_MapIsDictionary == MapReadsAs(map, oracle)

\* C9: remove(k) of a key that is not in the map leaves the size and the
\* get/has results of every other key as they were.
C9_RemoveAbsentIsNoOp ==
  (last.op = "remove" /\ ~MapHas(last.before, last.key)) =>
     /\ MapGetSize(map) = MapGetSize(last.before)
     /\ \A k \in MapKeys \ {last.key} :
          /\ MapHas(map, k) = MapHas(last.before, k)
          /\ MapGet(map, k) = MapGet(last.before, k)

\* C10: update(k, F) of a key that is not in the map returns undefined, does
\* not invoke F and leaves all entries and the size unchanged.
C10_UpdateAbsentIsNoOp ==
  (last.op = "update" /\ ~MapHas(last.before, last.key)) =>
     /\ last.ret = Undefined
     /\ ~last.invoked
     /\ MapSameEntries(map, last.before)

\* two distinct keys of the runs with the same hash
Collide(k1, k2) == k1 # k2 /\ hash(k1) = hash(k2)

\* the stored size is the number of pairs of a full iteration
SizeCountsEntries(m) == MapGetSize(m) = MapIterationCount(m)

\* C30: after any sequence of set, remove and update calls, with present or
\* absent keys and at any trie level, the stored size of the map equals the
\* number of [key, value] pairs a full iteration produces.
C30_SizeCountsEntries == SizeCountsEntries(map)

\* the key of the call has an entry in the multi-value node its walk ends at
InMultiValueNode(m, key) ==
  /\ lookupValueNode(m, key).valueNode.type = "multi"
  /\ PropName(key) \in DOMAIN lookupValueNode(m, key).valueNode.map

\* the walk of the key ends at a multi-value node that has no entry for it
AbsentAtMultiValueNode(m, key) ==
  /\ lookupValueNode(m, key).valueNode.type = "multi"
  /\ PropName(key) \notin DOMAIN lookupValueNode(m, key).valueNode.map

\* Every call keeps size equal to the number of iterated pairs, except an
\* update whose walk ends at a multi-value node without an entry for the key.
SizeCountsEntriesUnlessAbsentUpdate ==
  [][(SizeCountsEntries(map)
        /\ ~(last'.op = "update" /\ AbsentAtMultiValueNode(map, last'.key))) =>
       SizeCountsEntries(map')]_vars

\* set, remove and update of a key that is in a multi-value node keep the count
SizeCountsEntriesAtMultiValueNode ==
  (last.op # "init" /\ SizeCountsEntries(last.before)
     /\ InMultiValueNode(last.before, last.key)) => SizeCountsEntries(map)

\* a call on a key of a multi-value node has happened and the count is right
MultiValueNodeCallSeen ==
  /\ last.op = "remove" /\ InMultiValueNode(last.before, last.key)
  /\ SizeCountsEntries(last.before) /\ MapGetSize(map) = 1

\* The payload slots of a trie node and of the trie nodes below it are typed
\* as lookupValueNode expects: `depth` is the depth the walk reports for a
\* slot of trieNode (2 for the root); has, get, set, remove and update read a
\* payload as a single-value node if depth < maxDepth and as a multi-value
\* node otherwise.
RECURSIVE SlotsTyped(_, _)
SlotsTyped(trieNode, depth) ==
  \A i \in DOMAIN trieNode.slots :
    IF trieNode.slots[i].type = "trie"
    THEN depth < maxDepth /\ SlotsTyped(trieNode.slots[i], depth + 1)
    ELSE IF depth < maxDepth THEN trieNode.slots[i].type = "single"
    ELSE depth = maxDepth /\ trieNode.slots[i].type = "multi"

\* the multi-value nodes in and below a trie node
RECURSIVE MultiValueNodes(_)
MultiValueNodes(node) ==
  IF node.type = "multi" THEN {node}
  ELSE IF node.type = "single" THEN {}
  ELSE UNION {MultiValueNodes(node.slots[i]) : i \in DOMAIN node.slots}

\* the single-value nodes that are payloads of trie slots
RECURSIVE SingleValueNodes(_)
SingleValueNodes(node) ==
  IF node.type = "single" THEN {node}
  ELSE IF node.type = "multi" THEN {}
  ELSE UNION {SingleValueNodes(node.slots[i]) : i \in DOMAIN node.slots}

EntriesOf(multiValueNode) == Cardinality(DOMAIN multiValueNode.map)

\* C31, as stated: after any sequence of set and remove calls every payload
\* slot above the deepest trie level holds a single-value node, every payload
\* slot at the deepest level holds a multi-value node, and every multi-value
\* node of the trie has at least one entry.
C31_SlotTyping ==
  /\ SlotsTyped(map.root, 2)
  /\ \A n \in MultiValueNodes(map.root) : EntriesOf(n) >= 1

\* C31, as the code has it: the slots are typed by their depth, set leaves
\* the multi-value node it wrote to with an entry for its key, and only a
\* remove that took the last entry of a multi-value node leaves it, empty, in
\* its slot.
C31_SlotTypingOfTheCode ==
  /\ SlotsTyped(map.root, 2)
  /\ last.op = "set" =>
       (lookupValueNode(map, last.key).valueNode.type = "multi" =>
          InMultiValueNode(map, last.key))
  /\ (last.op = "remove" /\ \A n \in MultiValueNodes(last.before.root) : EntriesOf(n) >= 1) =>
       \A n \in MultiValueNodes(map.root) :
         EntriesOf(n) = 0 =>
           /\ InMultiValueNode(last.before, last.key)
           /\ EntriesOf(lookupValueNode(last.before, last.key).valueNode) = 1

\* single-value nodes in slots and a multi-value node of two entries
C31_Witness ==
  /\ SingleValueNodes(map.root) # {}
  /\ \E n \in MultiValueNodes(map.root) : EntriesOf(n) = 2

\* a remove emptied a multi-value node, which stays in its slot
C31_WitnessEmptied ==
  /\ last.op = "remove"
  /\ \A n \in MultiValueNodes(last.before.root) : EntriesOf(n) >= 1
  /\ \E n \in MultiValueNodes(map.root) : EntriesOf(n) = 0

\* The keys of the iteration runs: those of MapKeys and the number
\* 1 + 2^28 = 268435457, whose hash differs from that of 1 in the bits above
\* the seven nibbles the walk uses, so that 1 and 268435457 share a
\* multi-value node, where they are filed under the property names "1" and
\* "268435457".
IterationKeys == MapKeys \cup { NumKey(268435457) }

MapIterSetAct == MapSetOn(IterationKeys)

MapIterRemoveAct == MapRemoveOn(IterationKeys)

NextMapIter == MapIterSetAct \/ MapIterRemoveAct

\* set and remove on the keys of the iteration runs
SpecMapIter == InitMap /\ [][NextMapIter]_vars

\* a full iteration yields each pair of the dictionary d once and nothing else
IteratesAs(m, d) ==
  /\ MapIterationPairs(m) = {<<k, d[k]>> : k \in DOMAIN d}
  /\ MapIterationCount(m) = Cardinality(DOMAIN d)

\* C32: a full iteration of the map yields every live (key, value) entry
\* exactly once and nothing else, also after removals that left empty slots
\* and for entries of multi-value nodes, and each key yielded is the key that
\* was set.
C32_IterationYieldsLiveEntries == IteratesAs(map, oracle)

\* Every call keeps the iteration equal to the live entries, except a remove
\* of a key that is not live.
IterationYieldsLiveEntriesUnlessAbsentRemove ==
  [][(IteratesAs(map, oracle)
        /\ ~(last'.op = "remove" /\ last'.key \notin DOMAIN oracle)) =>
       IteratesAs(map', oracle')]_vars

\* the iteration yields what has and get report, each key once
IterationYieldsWhatGetReads ==
  /\ MapIterationPairs(map) =
       {<<k, MapGet(map, k)>> : k \in {x \in IterationKeys : MapHas(map, x)}}
  /\ MapIterationCount(map) = Cardinality({x \in IterationKeys : MapHas(map, x)})

\* number keys in a multi-value node, an empty slot left by a remove
NumberKeysIteratedFromMultiValueNode ==
  /\ last.op = "remove" /\ last.key = NumKey(17) /\ NumKey(17) \in last.live
  /\ IteratesAs(map, oracle)
  /\ {NumKey(1), NumKey(268435457)} \subseteq DOMAIN oracle
  /\ InMultiValueNode(map, NumKey(1)) /\ InMultiValueNode(map, NumKey(268435457))

\* C11: hash collisions. After set(K2, V2) on a map that holds a distinct key
\* K1 with the same hash, get(K1) is still K1's value, get(K2) is V2, both keys
\* are present and the size grew by one exactly when K2 was new; after
\* remove(K) of a present key K while a distinct present key with the same
\* hash is stored, K is absent, the size is one less and the other key still
\* has its value.
C11_CollidingKeysAreIndependent ==
  /\ last.op = "set" =>
       \A k1 \in MapKeys :
         (Collide(k1, last.key) /\ MapHas(last.before, k1)) =>
            /\ MapHas(map, k1) /\ MapGet(map, k1) = MapGet(last.before, k1)
            /\ MapHas(map, last.key) /\ MapGet(map, last.key) = oracle[last.key]
            /\ MapGetSize(map) = MapGetSize(last.before)
                                 + (IF MapHas(last.before, last.key) THEN 0 ELSE 1)
  /\ last.op = "remove" =>
       \A k1 \in MapKeys :
         (Collide(k1, last.key) /\ MapHas(last.before, k1)
                                /\ MapHas(last.before, last.key)) =>
            /\ ~MapHas(map, last.key) /\ MapGet(map, last.key) = Undefined
            /\ MapGetSize(map) = MapGetSize(last.before) - 1
            /\ MapHas(map, k1) /\ MapGet(map, k1) = MapGet(last.before, k1)

\* the bits of a hash code that select the slot at a level of the trie
HashDigit(hashCode, level) == (hashCode \div Pow16(level - 1)) % trieNodeSize

\* the push-downs it takes to part two keys whose single value node is found
\* with depth d: one, and one more for every level from d on, short of the
\* deepest, at which their hashes select the same slot
RECURSIVE PushDownsToPart(_, _, _)
PushDownsToPart(h1, h2, d) ==
  IF d < maxDepth - 1 /\ HashDigit(h1, d) = HashDigit(h2, d)
  THEN 1 + PushDownsToPart(h1, h2, d + 1)
  ELSE 1

\* set(m, key, ..) meets a single value node that holds another key
MeetsOtherKey(m, key) ==
  LET r == lookupValueNode(m, key)
  IN r.valueNode.type = "single" /\ r.depth < maxDepth /\ r.valueNode.key # key

\* the recursion of set(m, key, value) ends after at most maxDepth - 2
\* push-downs, as many as it takes to part the two keys, with the slot of the
\* key empty or, at the deepest level, a multi-value node; the call stores
\* there
SetEnds(m, key, value) ==
  LET s == setPushDowns(m, key, 0)
      r == lookupValueNode(m, key)
      e == lookupValueNode(s.map, key)
  IN /\ s.pushDowns <= maxDepth - 2
     /\ ~MeetsOtherKey(s.map, key)
     /\ MapSet(m, key, value) = MapSet(s.map, key, value)
     /\ IF MeetsOtherKey(m, key)
        THEN /\ s.pushDowns = PushDownsToPart(hash(key), hash(r.valueNode.key), r.depth)
             /\ \/ e.valueNode.type = "undefined" /\ e.depth <= maxDepth
                \/ e.valueNode.type = "multi" /\ e.depth = maxDepth
             /\ MapGetSize(MapSet(m, key, value)) = MapGetSize(m) + 1
        ELSE s.pushDowns = 0 /\ s.map = m

\* C40: set terminates for every key in every reachable state: when the key
\* meets a single value node that holds another key, the recursion makes at
\* most maxDepth - 2 push-downs before the entry lands in an empty slot or in
\* a multi-value node at the deepest level, also when the hashes of the two
\* keys are identical.
C40_SetTerminates ==
  /\ \A k \in IterationKeys : SetEnds(map, k, CHOOSE v \in MapValues : TRUE)
  /\ last.op = "set" =>
       /\ map = MapSet(setPushDowns(last.before, last.key, 0).map, last.key, oracle[last.key])
       /\ MapHas(map, last.key) /\ MapGet(map, last.key) = oracle[last.key]

\* C40 witness: a set met the single value node of a key of the same hash at
\* the first level and made maxDepth - 2 push-downs; the two keys are in a
\* multi-value node
C40_Witness ==
  /\ last.op = "set"
  /\ MeetsOtherKey(last.before, last.key)
  /\ Collide(last.key, lookupValueNode(last.before, last.key).valueNode.key)
  /\ setPushDowns(last.before, last.key, 0).pushDowns = maxDepth - 2
  /\ lookupValueNode(map, last.key).valueNode.type = "multi"
  /\ Cardinality(DOMAIN lookupValueNode(map, last.key).valueNode.map) = 2

\* C40 witness: one push-down parted two keys whose hashes differ at the
\* second level, and the entry landed in an empty slot
C40_WitnessOnePushDown ==
  /\ last.op = "set"
  /\ MeetsOtherKey(last.before, last.key)
  /\ setPushDowns(last.before, last.key, 0).pushDowns = 1
  /\ lookupValueNode(setPushDowns(last.before, last.key, 0).map, last.key).valueNode.type
       = "undefined"

\* C40 witness: a set met a single value node below the first level and made
\* fewer push-downs to reach the deepest level
C40_WitnessFromBelow ==
  /\ last.op = "set"
  /\ MeetsOtherKey(last.before, last.key)
  /\ lookupValueNode(last.before, last.key).depth > 2
  /\ lookupValueNode(map, last.key).valueNode.type = "multi"

\* the type of the node the lookup of key ends at
ValueNodeType(m, key) == lookupValueNode(m, key).valueNode.type

\* C11, its cases: a set that pushed the single value node of the other key
\* down, a set into the multi-value node that held the other key alone, and a
\* remove of one of two keys of a multi-value node
C11_WitnessRemove ==
  /\ last.op = "remove"
  /\ \E k1 \in MapKeys :
       /\ Collide(k1, last.key)
       /\ MapHas(last.before, k1) /\ MapHas(last.before, last.key)
       /\ MapHas(map, k1) /\ ~MapHas(map, last.key)
       /\ ValueNodeType(map, k1) = "multi"

C11_WitnessPushDown ==
  /\ last.op = "set"
  /\ \E k1 \in MapKeys :
       /\ Collide(k1, last.key)
       /\ MapHas(last.before, k1) /\ ~MapHas(last.before, last.key)
       /\ ValueNodeType(last.before, k1) = "single"
       /\ ValueNodeType(map, k1) = "multi"

C11_WitnessMultiValue ==
  /\ last.op = "set"
  /\ \E k1 \in MapKeys :
       /\ Collide(k1, last.key)
       /\ MapHas(last.before, k1) /\ ~MapHas(last.before, last.key)
       /\ ValueNodeType(last.before, k1) = "multi"


\* --------------------------------------------------------------------------
\* The SortedCollection specification: insert and remove of numbers on a
\* collection of the adapter the tests build ({orderComparer: (a, b) => a - b,
\* maxItemsPerLevel: 4}); the oracle is the bag of the values, a function from
\* value to its number of occurrences.
\* --------------------------------------------------------------------------
MaxNumber == 2

CollMaxSize == 12

Num(n) == [key |-> n, order |-> n, prim |-> TRUE]

CollValues == {Num(n) : n \in 0..MaxNumber}

InitColl ==
  /\ adapter = TestCollectionAdapter
  /\ map = MapCreate
  /\ coll = createBTreeRootNode
  /\ nextOrder = 0
  /\ oracle = [v \in CollValues |-> 0]
  /\ last = Idle

CollInsertUpTo(maxSize) ==
  \E v \in CollValues :
    /\ CollGetSize(coll) < maxSize
    /\ coll' = CollInsert(coll, v)
    /\ oracle' = [oracle EXCEPT ![v] = @ + 1]
    /\ last' = [op |-> "insert", value |-> v, found |-> FALSE,
                height |-> Len(rightMostPath(coll.root))]
    /\ UNCHANGED <<adapter, map, nextOrder>>

CollInsertAct == CollInsertUpTo(CollMaxSize)

CollRemoveAct ==
  \E v \in CollValues :
    LET found == lookupValuePath(coll, v).found
    IN /\ coll' = CollRemove(coll, v)
       /\ oracle' = IF found THEN [oracle EXCEPT ![v] = @ - 1] ELSE oracle
       /\ last' = [op |-> "remove", value |-> v, found |-> found,
                   height |-> Len(rightMostPath(coll.root))]
       /\ UNCHANGED <<adapter, map, nextOrder>>

NextColl == CollInsertAct \/ CollRemoveAct

SpecColl == InitColl /\ [][NextColl]_vars

\* the updaters of the collection runs: numbers cannot be changed in place
CollUpdaters == {[kind |-> "ret", v |-> x] : x \in CollValues} \cup {[kind |-> "noop"]}

\* the number of update calls of a run; nextOrder counts them
MaxUpdates == 1

CollUpdateAct ==
  \E v \in CollValues, f \in CollUpdaters :
    \E found \in {lookupValuePath(coll, v).found} :
      /\ nextOrder < MaxUpdates
      /\ nextOrder' = nextOrder + 1
      /\ coll' = CollUpdate(coll, v, f)
      /\ oracle' = IF found /\ f.kind = "ret"
                   THEN [[oracle EXCEPT ![v] = @ - 1] EXCEPT ![f.v] = @ + 1]
                   ELSE oracle
      /\ last' = [op |-> "update", value |-> v, found |-> found,
                  height |-> Len(rightMostPath(coll.root)),
                  updater |-> f, ret |-> CollUpdateReturn(coll, v, f)]
      /\ UNCHANGED <<adapter, map>>

\* the largest collection of the runs that update
CollUpdateMaxSize == 9

CollInsertAct2 == CollInsertUpTo(CollUpdateMaxSize)

NextCollUpdate == CollInsertAct2 \/ CollRemoveAct \/ CollUpdateAct

\* insert, remove and update
SpecCollUpdate == InitColl /\ [][NextCollUpdate]_vars

\* the number of occurrences of v in a sequence
RECURSIVE Occurrences(_, _)
Occurrences(s, v) ==
  IF s = <<>> THEN 0
  ELSE (IF Head(s) = v THEN 1 ELSE 0) + Occurrences(Tail(s), v)

RECURSIVE BagSize(_, _)
BagSize(b, vs) ==
  IF vs = {} THEN 0
  ELSE LET v == CHOOSE x \in vs : TRUE IN b[v] + BagSize(b, vs \ {v})

\* no run reaches what the model of removeByPath and rebalance does not follow
CollNeverBroken == "broken" \notin DOMAIN coll.root

\* C2: after N inserts and M removes that found their value, getSize is N - M
\* (the size of the oracle bag) and forward iteration yields every value as
\* many times as the bag holds it, and nothing else.
C2_CollIsSortedMultiset ==
  /\ CollGetSize(coll) = BagSize(oracle, CollValues)
  /\ Len(CollForward(coll)) = CollGetSize(coll)
  /\ \A v \in CollValues : Occurrences(CollForward(coll), v) = oracle[v]

\* C3: forward iteration is non-decreasing under orderComparer.
C3_ForwardIsNonDecreasing ==
  LET s == CollForward(coll)
  IN \A i \in 1..(Len(s) - 1) : orderComparer(s[i], s[i + 1]) <= 0


\* the number of levels of the tree
CollHeight(c) == Len(rightMostPath(c.root))

\* C2 witness: a remove found its value in a tree of three levels and the
\* merges it caused went up to the root, which took over its only child.
C2_Witness ==
  /\ last.op = "remove" /\ last.found
  /\ last.height = 3 /\ CollHeight(coll) = 2
  /\ \E v \in CollValues : oracle[v] >= 2

\* C3 witness: a value smaller than values already present was inserted and
\* the insert split the root of a two-level tree.
C3_Witness ==
  /\ last.op = "insert" /\ last.value = Num(0)
  /\ oracle[Num(MaxNumber)] > 0 /\ oracle[Num(1)] > 0
  /\ last.height = 2 /\ CollHeight(coll) = 3

\* the nodes below a node: every node of its tree but itself
RECURSIVE Descendants(_)
Descendants(node) ==
  IF isLeafNode(node) THEN {}
  ELSE UNION { {node.children[i]} \cup Descendants(node.children[i]) :
               i \in 1..Len(node.children) }

\* what isNodeDeficient and canNodeLoseItem count: the values of a leaf, the
\* children of an internal node
Occupancy(node) == IF isLeafNode(node) THEN Len(node.items) ELSE Len(node.children)

\* C12 as stated: after any insertion and any removal every non-root leaf
\* holds between minItemsPerLevel and maxItemsPerLevel - 1 values and every
\* non-root internal node has between minItemsPerLevel and
\* maxItemsPerLevel - 1 children.
C12_NodeOccupancy ==
  \A n \in Descendants(coll.root) :
    Occupancy(n) \in minItemsPerLevel .. (maxItemsPerLevel - 1)

\* C12 as the code has it: after any insertion and any removal every non-root
\* leaf holds between 1 and maxItemsPerLevel values (a node is split by the
\* insert after the one that filled it, and the left-heavy and right-heavy
\* splits leave a leaf of one value) and every non-root internal node has
\* between minItemsPerLevel and maxItemsPerLevel children.
C12_NodeOccupancyOfTheCode ==
  \A n \in Descendants(coll.root) :
    IF isLeafNode(n)
    THEN Len(n.items) \in 1 .. maxItemsPerLevel
    ELSE Len(n.children) \in minItemsPerLevel .. maxItemsPerLevel

\* C12 witness: after a remove that found its value the tree has three
\* levels, a leaf of one value and a leaf of maxItemsPerLevel values
C12_Witness ==
  /\ last.op = "remove" /\ last.found
  /\ CollHeight(coll) = 3
  /\ \E n \in Descendants(coll.root) : isLeafNode(n) /\ Len(n.items) = 1
  /\ \E n \in Descendants(coll.root) : isLeafNode(n) /\ Len(n.items) = maxItemsPerLevel

\* the largest non-root internal node a run of CollMaxSize values reaches
C12_WitnessInternal ==
  /\ CollHeight(coll) = 3
  /\ \E n \in Descendants(coll.root) : ~isLeafNode(n) /\ Len(n.children) = 3

\* the depths at which the leaves of a tree are
RECURSIVE LeafDepths(_)
LeafDepths(node) ==
  IF isLeafNode(node) THEN {1}
  ELSE { d + 1 : d \in UNION { LeafDepths(node.children[i]) : i \in 1..Len(node.children) } }

\* C13: after any sequence of insert, remove and update calls all leaves of
\* the tree are at the same depth.
C13_LeavesAtSameDepth == Cardinality(LeafDepths(coll.root)) = 1

\* C13 witness: an update found its value in a tree of three levels, took it
\* out of its place and inserted it again, and the tree has two levels now
C13_Witness ==
  /\ last.op = "update" /\ last.found
  /\ last.height = 3 /\ CollHeight(coll) = 2

\* --------------------------------------------------------------------------
\* The specification of the donors: insert, remove and update on a
\* collection, a remove recording whether it took its value out of an
\* internal node and how many values the rightmost leaf of the left subtree
\* held then.
\* --------------------------------------------------------------------------
\* the leaf lookupRightMostValueWithParentPath reaches from node
DonorLeaf(node) ==
  LET p == rightMostPath(node) IN NodeAt(node, SubSeq(p, 1, Len(p) - 1))

\* the values of the leaf that gives its last value when the value at a found
\* path is removed from an internal node
DonorValues(root, path) ==
  LET container == NodeAt(root, SubSeq(path, 1, Len(path) - 1))
  IN Len(DonorLeaf(At(container.children, path[Len(path)])).items)

DonorRemoveAct ==
  \E v \in CollValues :
    \E existingInfo \in {lookupValuePath(coll, v)} :
      LET internal == /\ existingInfo.found
                      /\ ~isLeafNode(NodeAt(coll.root,
                            SubSeq(existingInfo.path, 1, Len(existingInfo.path) - 1)))
      IN /\ coll' = CollRemove(coll, v)
         /\ oracle' = IF existingInfo.found THEN [oracle EXCEPT ![v] = @ - 1] ELSE oracle
         /\ last' = [op |-> "remove", value |-> v, found |-> existingInfo.found,
                     height |-> Len(rightMostPath(coll.root)),
                     internal |-> internal,
                     donors |-> IF internal THEN DonorValues(coll.root, existingInfo.path)
                                ELSE 0]
         /\ UNCHANGED <<adapter, map, nextOrder>>

NextDonor == CollInsertAct2 \/ DonorRemoveAct \/ CollUpdateAct

SpecDonor == InitColl /\ [][NextDonor]_vars

\* the nodes of a tree
NodesOf(root) == {root} \cup Descendants(root)

\* no leaf but the root is empty, and an internal node has one child more
\* than it has values
NoEmptyNode(root) ==
  /\ \A n \in Descendants(root) : isLeafNode(n) => Len(n.items) >= 1
  /\ \A n \in NodesOf(root) :
       ~isLeafNode(n) => Len(n.children) = Len(n.items) + 1

\* every value of an internal node has a donor: the rightmost leaf of the
\* subtree to its left holds a value
DonorsExist(root) ==
  \A n \in NodesOf(root) :
    ~isLeafNode(n) =>
      \A i \in 0..(Len(n.items) - 1) : Len(DonorLeaf(At(n.children, i)).items) >= 1

\* C38: after every completed insert, remove or update no non-root node is
\* empty: every non-root leaf holds at least one value and every internal
\* node has one child more than it has values, so the rightmost value of the
\* left subtree exists whenever a value is removed from an internal node.
C38_NoEmptyNode ==
  /\ CollNeverBroken
  /\ NoEmptyNode(coll.root)
  /\ DonorsExist(coll.root)
  /\ (last.op = "remove" /\ last.internal) => last.donors >= 1

\* C38 witness: a remove took its value out of an internal node of a tree of
\* three levels, and the leaf that gave its last value held only that one
C38_Witness ==
  /\ last.op = "remove" /\ last.internal
  /\ last.height = 3
  /\ last.donors = 1

\* C38 witness: an update moved a value in a tree of three levels
C38_WitnessUpdate ==
  /\ last.op = "update" /\ last.found /\ last.updater.kind = "ret"
  /\ last.updater.v # last.value
  /\ last.height = 3

\* the same in the runs of up to CollMaxSize values without update
NoEmptyNodeOfColl == NoEmptyNode(coll.root) /\ DonorsExist(coll.root)

\* the sequence q from its last element to its first
ReverseOf(q) == [i \in 1..Len(q) |-> q[Len(q) + 1 - i]]

\* C21: backward iteration yields exactly the reverse of the forward
\* iteration sequence, whatever the shape of the tree: a root leaf, a tree of
\* several levels, a tree that removals have rebalanced.
C21_BackwardIsReverseOfForward == CollBackward(coll) = ReverseOf(CollForward(coll))

\* C21 witness: a remove took a value out of a tree of three levels, and the
\* backward iteration of what is left, more than one distinct value, is the
\* reverse of the forward iteration
C21_Witness ==
  /\ last.op = "remove" /\ last.found /\ last.height = 3
  /\ ~coll.root.leaf
  /\ CollBackward(coll) = ReverseOf(CollForward(coll))
  /\ CollBackward(coll) # CollForward(coll)

\* C21 witness of the root leaf: the backward iteration of a collection whose
\* root is a leaf of several values
C21_WitnessRootLeaf ==
  /\ coll.root.leaf /\ Len(coll.root.items) = 3
  /\ CollBackward(coll) # CollForward(coll)
  /\ CollBackward(coll) = ReverseOf(CollForward(coll))

\* no stored value of c is equal to value under equalityComparer
NoEqualStored(c, value) ==
  \A i \in 1..Len(CollForward(c)) : ~equalityComparer(CollForward(c)[i], value)

\* C22: remove(value) for a value that has no equal stored element, the
\* empty collection included, is a silent no-op: the collection, and so its
\* size and its iteration sequence, is the same after the call, and the
\* lookup reports the value as not found.
C22_RemoveAbsentIsSilent ==
  [][(last'.op = "remove" /\ NoEqualStored(coll, last'.value)) =>
       (coll' = coll /\ ~last'.found)]_vars

\* C22 witness: a remove of 1 on a tree of two levels or more that holds
\* values smaller and values larger than 1, but not 1
C22_Witness ==
  /\ last.op = "remove" /\ ~last.found /\ last.value = Num(1)
  /\ ~coll.root.leaf
  /\ oracle[Num(0)] > 0 /\ oracle[Num(1)] = 0 /\ oracle[Num(2)] > 0

\* C22 witness of the empty collection
C22_WitnessEmpty ==
  /\ last.op = "remove" /\ ~last.found
  /\ CollGetSize(coll) = 0 /\ CollForward(coll) = <<>>

\* C23: after update(collection, value, F) on a stored value forward
\* iteration is again non-decreasing under orderComparer, the size is
\* unchanged and the content is the previous multiset with that one element
\* updated (the oracle bag), for primitive numbers of any value as well.
C23_UpdateKeepsSortedMultiset ==
  (last.op = "update" /\ last.found) =>
    /\ \A i \in 1..(Len(CollForward(coll)) - 1) :
         orderComparer(CollForward(coll)[i], CollForward(coll)[i + 1]) <= 0
    /\ CollGetSize(coll) = BagSize(oracle, CollValues)
    /\ Len(CollForward(coll)) = CollGetSize(coll)
    /\ \A v \in CollValues : Occurrences(CollForward(coll), v) = oracle[v]

\* C24: update returns the resulting stored value whenever the value is
\* found, the replacement if F returned one and the existing value otherwise,
\* and returns undefined only when the value is not found.
C24_UpdateReturnsStoredValue ==
  last.op = "update" =>
    last.ret = IF ~last.found THEN Undefined
               ELSE IF last.updater.kind = "ret" THEN last.updater.v
               ELSE last.value

\* what update returns in the code: the value F returned, undefined when F
\* returned nothing or the value is not found
UpdateReturnsWhatUpdaterReturned ==
  last.op = "update" =>
    last.ret = IF last.found /\ last.updater.kind = "ret" THEN last.updater.v
               ELSE Undefined


\* --------------------------------------------------------------------------
\* The specification of values that compare equal: insert and remove of the
\* objects {key, order} on a collection of the adapter {orderComparer: (a, b)
\* => a.order - b.order, equalityComparer: (a, b) => a.key === b.key,
\* maxItemsPerLevel: 4}.  The key of a value is the number of the insert that
\* stored it (nextOrder counts the inserts); the oracle is the sequence of the
\* stored values in the order of their insertion.
\* --------------------------------------------------------------------------
MaxInserts == 6

MaxTestOrder == 2

TestObject(key, order) == [key |-> key, order |-> order, prim |-> FALSE]

InitTies ==
  /\ adapter = TestCollectionAdapter
  /\ map = MapCreate
  /\ coll = createBTreeRootNode
  /\ nextOrder = 0
  /\ oracle = <<>>
  /\ last = Idle

TiesInsertAct ==
  \E o \in 0..MaxTestOrder :
    \E v \in {TestObject(nextOrder, o)} :
      /\ nextOrder < MaxInserts
      /\ coll' = CollInsert(coll, v)
      /\ oracle' = Append(oracle, v)
      /\ nextOrder' = nextOrder + 1
      /\ last' = [op |-> "insert", value |-> v, before |-> CollForward(coll)]
      /\ UNCHANGED <<adapter, map>>

TiesRemoveAct ==
  \E i \in 1..Len(oracle) :
    /\ coll' = CollRemove(coll, oracle[i])
    /\ oracle' = IF lookupValuePath(coll, oracle[i]).found
                 THEN SubSeq(oracle, 1, i - 1) \o SubSeq(oracle, i + 1, Len(oracle))
                 ELSE oracle
    /\ last' = [op |-> "remove", value |-> oracle[i], before |-> CollForward(coll)]
    /\ UNCHANGED <<adapter, map, nextOrder>>

NextTies == TiesInsertAct \/ TiesRemoveAct

SpecTies == InitTies /\ [][NextTies]_vars

\* C14: among the stored values that compare equal under orderComparer forward
\* iteration yields the values in the order of their insertion (the keys of the
\* run are the numbers of the inserts).
C14_StableInsertion ==
  LET s == CollForward(coll)
  IN \A i, j \in 1..Len(s) :
       (i < j /\ orderComparer(s[i], s[j]) = 0) => s[i].key < s[j].key

\* the values of a sequence that compare equal to v under orderComparer
RECURSIVE TiesOf(_, _)
TiesOf(s, v) ==
  IF s = <<>> THEN <<>>
  ELSE (IF orderComparer(Head(s), v) = 0 THEN <<Head(s)>> ELSE <<>>) \o TiesOf(Tail(s), v)

\* C15: every insert adds one position to the iteration, also among values
\* that compare equal; remove(value) takes exactly one stored occurrence that
\* satisfies equalityComparer out of the iteration and leaves every other
\* value at its place.
C15_RemoveTakesOneOccurrence ==
  /\ Len(CollForward(coll)) = Len(oracle) /\ CollGetSize(coll) = Len(oracle)
  /\ last.op = "insert" =>
        Len(TiesOf(CollForward(coll), last.value)) = Len(TiesOf(last.before, last.value)) + 1
  /\ last.op = "remove" =>
        \E i \in 1..Len(last.before) :
          /\ equalityComparer(last.before[i], last.value)
          /\ CollForward(coll) =
               SubSeq(last.before, 1, i - 1) \o SubSeq(last.before, i + 1, Len(last.before))

\* lookupValuePath finds every value of the sequence `stored`, at a path that
\* addresses an element equal to it
LookupComplete(c, stored) ==
  \A i \in 1..Len(stored) :
    /\ lookupValuePath(c, stored[i]).found
    /\ equalityComparer(ValueAtPath(c.root, lookupValuePath(c, stored[i]).path), stored[i])

\* lookupValuePath returns undefined for every value of `candidates` that no
\* element of `stored` is equal to
LookupSound(c, stored, candidates) ==
  \A v \in candidates :
    (\A i \in 1..Len(stored) : ~equalityComparer(stored[i], v)) =>
       ~lookupValuePath(c, v).found

\* the values looked up: every key of the run, stored or not, at every order
LookupCandidates == {TestObject(k, o) : k \in 0..MaxInserts, o \in 0..MaxTestOrder}

\* C33: for every value v stored in the collection, also when many stored
\* values compare equal to v under orderComparer and lie in several nodes,
\* lookupValuePath(v) returns a path whose last frame addresses a stored
\* element equal to v under equalityComparer; for a value that no stored
\* element is equal to it returns undefined.
C33_LookupCompleteAndSound ==
  /\ LookupComplete(coll, CollForward(coll))
  /\ LookupSound(coll, CollForward(coll), LookupCandidates)

\* the nodes of the path of a found value, from the root to its container
NodesOfTies(c, v) ==
  {SubSeq(lookupValuePath(c, w).path, 1, Len(lookupValuePath(c, w).path) - 1) :
     w \in {x \in LookupCandidates : lookupValuePath(c, x).found /\ orderComparer(x, v) = 0}}

\* C33 witness: five stored values compare equal and lie in the root and in
\* two leaves at least, and a value that was removed is looked up in vain
C33_Witness ==
  /\ last.op = "remove"
  /\ ~lookupValuePath(coll, last.value).found
  /\ CollHeight(coll) = 2
  /\ \E v \in LookupCandidates :
       /\ lookupValuePath(coll, v).found
       /\ Len(TiesOf(CollForward(coll), v)) >= 5
       /\ Cardinality(NodesOfTies(coll, v)) >= 3

\* The runs of the test 'removes items ascending to 20 (same ordering key)':
\* every value compares equal to every other (all orders are 0), the key of a
\* value is the number of its insert, and values are removed in any order.
MaxEqualInserts == 14

MaxEqualRemoves == 2

InitEqual ==
  /\ adapter = TestCollectionAdapter
  /\ map = MapCreate
  /\ coll = createBTreeRootNode
  /\ nextOrder = 0
  /\ oracle = <<>>
  /\ last = [op |-> "init", removes |-> 0]

EqualInsertAct ==
  /\ nextOrder < MaxEqualInserts
  /\ coll' = CollInsert(coll, TestObject(nextOrder, 0))
  /\ oracle' = Append(oracle, TestObject(nextOrder, 0))
  /\ nextOrder' = nextOrder + 1
  /\ last' = [op |-> "insert", value |-> TestObject(nextOrder, 0), removes |-> last.removes]
  /\ UNCHANGED <<adapter, map>>

EqualRemoveAct ==
  \E i \in 1..Len(oracle) :
    /\ last.removes < MaxEqualRemoves
    /\ coll' = CollRemove(coll, oracle[i])
    /\ oracle' = SubSeq(oracle, 1, i - 1) \o SubSeq(oracle, i + 1, Len(oracle))
    /\ last' = [op |-> "remove", value |-> oracle[i], removes |-> last.removes + 1]
    /\ UNCHANGED <<adapter, map, nextOrder>>

NextEqual == EqualInsertAct \/ EqualRemoveAct

SpecEqual == InitEqual /\ [][NextEqual]_vars

\* the values looked up in the runs of equal values
EqualCandidates == {TestObject(k, 0) : k \in 0..MaxEqualInserts}

\* lookup among values that all compare equal, in trees of up to three levels
EqualLookupCompleteAndSound ==
  /\ LookupComplete(coll, oracle)
  /\ LookupSound(coll, oracle, EqualCandidates)
  /\ Len(CollForward(coll)) = Len(oracle)

EqualThreeLevels ==
  /\ CollHeight(coll) = 3 /\ last.op = "remove" /\ last.removes = 2

\* C15 witness: a remove took one of three values that compare equal out of a
\* tree of two levels, and it was neither the first nor the last of them
C15_Witness ==
  /\ last.op = "remove"
  /\ CollHeight(coll) = 2
  /\ Len(TiesOf(last.before, last.value)) >= 3
  /\ TiesOf(last.before, last.value)[1] # last.value
  /\ TiesOf(last.before, last.value)[Len(TiesOf(last.before, last.value))] # last.value


\* --------------------------------------------------------------------------
\* The specification of splits: inserts of the numbers 0..MaxNumber into a
\* collection of maxItemsPerLevel 4 or 6 (the test 'gets iterators (in-order
\* insertion)' runs 4, 6, .. 16); last holds the collection before the insert.
\* --------------------------------------------------------------------------
SplitMaxItemsPerLevel == 6

SplitMaxSize == 18

SplitAdapters ==
  {TestCollectionAdapter,
   [maxItemsPerLevel |-> SplitMaxItemsPerLevel, orderComparer |-> "difference"]}

InitSplit ==
  /\ adapter \in SplitAdapters
  /\ map = MapCreate
  /\ coll = createBTreeRootNode
  /\ nextOrder = 0
  /\ oracle = <<>>
  /\ last = Idle

SplitInsertAct ==
  \E v \in CollValues :
    /\ CollGetSize(coll) < SplitMaxSize
    /\ coll' = CollInsert(coll, v)
    /\ last' = [op |-> "insert", value |-> v, before |-> coll]
    /\ UNCHANGED <<adapter, map, nextOrder, oracle>>

NextSplit == SplitInsertAct

SpecSplit == InitSplit /\ [][NextSplit]_vars

\* The path of child indexes from the node at cpath to the first node the
\* descent of insertInBTreeNode(node at cpath, .., value) splits, or
\* found |-> FALSE if the descent reaches a leaf without a split.  The node of
\* the call "parent" (parent === undefined) is not split.
RECURSIVE FirstFull(_, _, _, _)
FirstFull(root, cpath, call, value) ==
  IF call # "parent" /\ IsFull(NodeAt(root, cpath)) THEN [found |-> TRUE, path |-> cpath]
  ELSE IF isLeafNode(NodeAt(root, cpath)) THEN [found |-> FALSE, path |-> cpath]
  ELSE FirstFull(root, Append(cpath, findRecursionIndex(NodeAt(root, cpath), value)),
                 "child", value)

ParentPathOf(at) == SubSeq(at, 1, Len(at) - 1)

\* the shape the sentence gives the split of the full node at path `at` of
\* the tree `root`: "left", "right" for the heavy side, or "half"
ShapeOf(root, at) ==
  IF at = <<>> \/ ~isLeafNode(NodeAt(root, at)) THEN "half"
  ELSE IF at[Len(at)] = Len(NodeAt(root, ParentPathOf(at)).children) - 1 THEN "left"
  ELSE IF at[Len(at)] = 0 THEN "right"
  ELSE "half"

\* the number of values the sentence gives the left node
LeftCount(shape, items) ==
  IF shape = "left" THEN Len(items) - 2
  ELSE IF shape = "right" THEN 1
  ELSE Len(items) \div 2

\* `parent` holds at index i the separator sep between a child with the values
\* `left` and a child with the values `right`, which share the children of
\* `node` in their order
SplitInto(parent, i, left, sep, right, node) ==
  /\ Has(parent.items, i) /\ At(parent.items, i) = sep
  /\ Has(parent.children, i + 1)
  /\ At(parent.children, i).items = left /\ At(parent.children, i + 1).items = right
  /\ At(parent.children, i).leaf = node.leaf /\ At(parent.children, i + 1).leaf = node.leaf
  /\ At(parent.children, i).children \o At(parent.children, i + 1).children = node.children
  /\ ~node.leaf => Len(At(parent.children, i).children) = Len(left) + 1
  /\ left \o <<sep>> \o right = node.items

\* the tree `after` is the tree `before` with its full node at path `at` split
\* in the shape of the sentence: the root becomes the parent of the two nodes,
\* any other parent gets one more value and one more child, and the iteration
\* of the tree is what it was
SplitAsStated(before, after, at) ==
  /\ SplitInto(NodeAt(after, ParentPathOf(at)), IF at = <<>> THEN 0 ELSE at[Len(at)],
               SubSeq(NodeAt(before, at).items, 1,
                      LeftCount(ShapeOf(before, at), NodeAt(before, at).items)),
               NodeAt(before, at).items[LeftCount(ShapeOf(before, at), NodeAt(before, at).items) + 1],
               SubSeq(NodeAt(before, at).items,
                      LeftCount(ShapeOf(before, at), NodeAt(before, at).items) + 2,
                      Len(NodeAt(before, at).items)),
               NodeAt(before, at))
  /\ IF at = <<>> THEN Len(after.items) = 1 /\ Len(after.children) = 2 /\ after.isRoot
     ELSE /\ Len(NodeAt(after, ParentPathOf(at)).items)
               = Len(NodeAt(before, ParentPathOf(at)).items) + 1
          /\ Len(NodeAt(after, ParentPathOf(at)).children)
               = Len(NodeAt(before, ParentPathOf(at)).children) + 1
  /\ ForwardFrom(after, 0, TRUE) = ForwardFrom(before, 0, TRUE)

\* every split of insertInBTreeNode(node at cpath, .., value) on the tree
\* `root` has the shape of the sentence
RECURSIVE SplitsAsStated(_, _, _, _)
SplitsAsStated(root, cpath, call, value) ==
  \A f \in {FirstFull(root, cpath, call, value)} :
    f.found =>
      \A after \in {splitFullNode(root, f.path)} :
        /\ SplitAsStated(root, after, f.path)
        /\ SplitsAsStated(after, ParentPathOf(f.path), "parent", value)

\* the number of splits of insertInBTreeNode(node at cpath, .., value)
RECURSIVE SplitCount(_, _, _, _)
SplitCount(root, cpath, call, value) ==
  IF ~FirstFull(root, cpath, call, value).found THEN 0
  ELSE 1 + SplitCount(splitFullNode(root, FirstFull(root, cpath, call, value).path),
                      ParentPathOf(FirstFull(root, cpath, call, value).path), "parent", value)

\* C34: an insert that meets a full node splits it: left-heavy if it is a
\* non-root leaf and the last child of its parent (the right node gets the
\* last value alone, the second-to-last value is the separator), otherwise
\* right-heavy if it is a leaf and the first child (the left node gets the
\* first value alone, the second value is the separator), at floor(len / 2)
\* otherwise (the root and internal nodes included); left values, separator
\* and right values are the node's values in their order, and the insert goes
\* on from the parent, which holds the separator between the two nodes.
C34_SplitShape ==
  (last.op = "insert" /\ FirstFull(last.before.root, <<>>, "top", last.value).found) =>
     /\ SplitsAsStated(last.before.root, <<>>, "top", last.value)
     /\ coll.root =
          insertInBTreeNode(
            splitFullNode(last.before.root,
                          FirstFull(last.before.root, <<>>, "top", last.value).path),
            ParentPathOf(FirstFull(last.before.root, <<>>, "top", last.value).path),
            "parent", last.value)

\* an insert split two nodes
TwoSplitsInOneInsert ==
  last.op = "insert" /\ SplitCount(last.before.root, <<>>, "top", last.value) >= 2

\* the shape and the kind of the first split of the last insert
LastSplit(shape, leaf, depth, level) ==
  /\ last.op = "insert" /\ adapter.maxItemsPerLevel = level
  /\ FirstFull(last.before.root, <<>>, "top", last.value).found
  /\ Len(FirstFull(last.before.root, <<>>, "top", last.value).path) = depth
  /\ ShapeOf(last.before.root, FirstFull(last.before.root, <<>>, "top", last.value).path) = shape
  /\ isLeafNode(NodeAt(last.before.root,
                       FirstFull(last.before.root, <<>>, "top", last.value).path)) = leaf

\* C34 witnesses: with maxItemsPerLevel 6 a leaf that is the last child, a
\* leaf that is the first child and a leaf between them were split; the root
\* was split as a leaf and as an internal node; with maxItemsPerLevel 4 an
\* internal node below the root was split
C34_Witness == LastSplit("left", TRUE, 1, SplitMaxItemsPerLevel)

C34_WitnessRightHeavy == LastSplit("right", TRUE, 1, SplitMaxItemsPerLevel)

C34_WitnessMiddleLeaf == LastSplit("half", TRUE, 1, SplitMaxItemsPerLevel)

C34_WitnessRootLeaf == LastSplit("half", TRUE, 0, SplitMaxItemsPerLevel)

C34_WitnessRoot == LastSplit("half", FALSE, 0, TestMaxItemsPerLevel)

C34_WitnessInternal == LastSplit("half", FALSE, 1, TestMaxItemsPerLevel)

\* --------------------------------------------------------------------------
\* The SortedMap specification: set, remove and update on a sorted map of
\* numbers ordered by their value (SortedMapAdapter<K, number, number> with
\* getOrderingKey: v => v); the oracle is the dictionary of the run.
\* --------------------------------------------------------------------------
SortedMapValues == {Num(n) : n \in 0..MaxNumber}

\* updaters that return a replacement, and the one that returns undefined
SortedMapUpdaters ==
  {[kind |-> "ret", v |-> x] : x \in SortedMapValues} \cup {[kind |-> "noop"]}

\* the keys of the run: 1 and 17, whose hashes share their first nibble
SortedMapKeys == {NumKey(1), NumKey(17)}

InitSortedMap ==
  /\ adapter = SortedMapCollectionAdapter
  /\ map = SortedMapCreate.map
  /\ coll = SortedMapCreate.sortedCollection
  /\ nextOrder = 0
  /\ oracle = <<>>
  /\ last = Idle

\* the sets stop when the collection holds SortedMapMaxSize tuples
SortedMapMaxSize == 3

SortedMapSetAct ==
  \E k \in SortedMapKeys, v \in SortedMapValues :
    LET r == SortedMapSet([map |-> map, sortedCollection |-> coll], k, v)
    IN /\ CollGetSize(coll) < SortedMapMaxSize
       /\ map' = r.sortedMap.map
       /\ coll' = r.sortedMap.sortedCollection
       /\ oracle' = DictPut(oracle, k, v)
       /\ last' = [op |-> "set", key |-> k, value |-> v, threw |-> r.threw,
                   present |-> k \in DOMAIN oracle]
       /\ UNCHANGED <<adapter, nextOrder>>

SortedMapRemoveAct ==
  \E k \in SortedMapKeys :
    LET sm == SortedMapRemove([map |-> map, sortedCollection |-> coll], k)
    IN /\ map' = sm.map
       /\ coll' = sm.sortedCollection
       /\ oracle' = DictDel(oracle, k)
       /\ last' = [op |-> "remove", key |-> k, present |-> k \in DOMAIN oracle]
       /\ UNCHANGED <<adapter, nextOrder>>

SortedMapUpdateAct ==
  \E k \in SortedMapKeys, f \in SortedMapUpdaters :
    LET r == SortedMapUpdate([map |-> map, sortedCollection |-> coll], k, f)
    IN /\ map' = r.sortedMap.map
       /\ coll' = r.sortedMap.sortedCollection
       /\ oracle' = IF k \in DOMAIN oracle /\ f.kind = "ret"
                    THEN DictPut(oracle, k, f.v) ELSE oracle
       /\ last' = [op |-> "update", key |-> k, updater |-> f, threw |-> r.threw,
                   present |-> k \in DOMAIN oracle]
       /\ UNCHANGED <<adapter, nextOrder>>

NextSortedMap == SortedMapSetAct \/ SortedMapRemoveAct \/ SortedMapUpdateAct

SpecSortedMap == InitSortedMap /\ [][NextSortedMap]_vars

\* the keys of the tuples of the collection, one per tuple
CollKeys(c) == LET items == CollForward(c) IN [i \in 1..Len(items) |-> items[i].key]

SeqRange(q) == {q[i] : i \in 1..Len(q)}

\* C4: the keys of the hash trie are the keys of the sorted collection (each
\* in one tuple), and getSize, read from the collection, is the trie's size.
C4_SameKeysInMapAndCollection ==
  /\ SeqRange(CollKeys(coll)) = {k \in SortedMapKeys : MapHas(map, k)}
  /\ Len(CollKeys(coll)) = Cardinality(SeqRange(CollKeys(coll)))
  /\ SortedMapGetSize([map |-> map, sortedCollection |-> coll]) = MapGetSize(map)

\* C5: the sorted map reads as the oracle dictionary: same size, get gives the
\* oracle's value for every oracle key, forward iteration visits exactly the
\* oracle's keys, each once and with its oracle value, in non-decreasing order
\* of the ordering keys of the values.
C5_SortedMapIsDictionary ==
  LET sm == [map |-> map, sortedCollection |-> coll]
      it == SortedMapIterable(sm)
  IN /\ SortedMapGetSize(sm) = Cardinality(DOMAIN oracle)
     /\ \A k \in DOMAIN oracle : SortedMapGet(sm, k) = oracle[k]
     /\ Len(it) = Cardinality(DOMAIN oracle)
     /\ {it[i][1] : i \in 1..Len(it)} = DOMAIN oracle
     /\ \A i \in 1..Len(it) : it[i][1] \in DOMAIN oracle /\ it[i][2] = oracle[it[i][1]]
     /\ \A i \in 1..(Len(it) - 1) :
          getOrderingKey(it[i][2]) <= getOrderingKey(it[i + 1][2])

\* the sorted map of the run
SortedMap == [map |-> map, sortedCollection |-> coll]

\* the tuple of key k is at a place of the iteration that its order `order`
\* gives it: it is there once, with that order, no tuple before it has a
\* larger order and no tuple after it a smaller one
PositionedBy(c, k, order) ==
  LET items == CollForward(c)
  IN /\ Cardinality({i \in 1..Len(items) : items[i].key = k}) = 1
     /\ \A i \in 1..Len(items) :
          items[i].key = k =>
            /\ items[i].order = order
            /\ \A j \in 1..(i - 1) : items[j].order <= order
            /\ \A j \in (i + 1)..Len(items) : items[j].order >= order

\* what C16 says of a set(k, v) that led from the sorted map sm to sm2
SetStored(sm, sm2, k, v) ==
  /\ SortedMapGet(sm2, k) = v
  /\ SortedMapHas(sm2, k)
  /\ PositionedBy(sm2.sortedCollection, k, getOrderingKey(v))
  /\ SortedMapGetSize(sm2) =
       SortedMapGetSize(sm) + (IF SortedMapHas(sm, k) THEN 0 ELSE 1)

\* C16: after set(K, V) get(K) is V, has(K) is true and K is iterated at the
\* position its ordering key getOrderingKey(V) gives it; the size grew by one
\* when K was absent and is unchanged when K was present, whatever its value
\* was.
C16_SetStoresAndPositions ==
  [][last'.op = "set" =>
       SetStored(SortedMap, [map |-> map', sortedCollection |-> coll'],
                 last'.key, last'.value)]_vars



\* every tuple of the collection whose key is in the hash trie records the
\* ordering key of the value the trie holds for that key
OrdersAreOfStoredValues(sm) ==
  \A i \in 1..Len(CollForward(sm.sortedCollection)) :
    MapHas(sm.map, CollForward(sm.sortedCollection)[i].key) =>
      CollForward(sm.sortedCollection)[i].order
        = getOrderingKey(MapGet(sm.map, CollForward(sm.sortedCollection)[i].key))

\* C35: after every set, update (by in-place change or by returned
\* replacement, whatever the returned value) and remove, the order recorded in
\* the tuple of each key is getOrderingKey of the value the hash trie holds
\* for that key.
C35_TupleOrderIsOrderingKey == OrdersAreOfStoredValues(SortedMap)

\* from a state in which trie and collection have the same keys, an update
\* that returns a truthy replacement or nothing keeps the orders, and so do
\* remove and a set of a truthy value
TruthyCallsKeepOrders ==
  [][(OrdersAreOfStoredValues(SortedMap) /\ C4_SameKeysInMapAndCollection
        /\ (last'.op = "update" /\ last'.updater.kind = "ret" => Truthy(last'.updater.v))
        /\ (last'.op = "set" => Truthy(last'.value)))
       => OrdersAreOfStoredValues([map |-> map', sortedCollection |-> coll'])]_vars

\* the tuples of an LRU cache record the order stamps of its wrappers
LruOrdersAreOfStoredValues == OrdersAreOfStoredValues(SortedMap)

\* an update changed the order of a key's value in place and the tuple follows
InPlaceUpdateMovedTuple ==
  /\ last.op = "update" /\ last.updater.kind = "mut" /\ last.invoked
  /\ MapHas(map, last.key)
  /\ \E i \in 1..Len(CollForward(coll)) :
       CollForward(coll)[i].key = last.key /\ CollForward(coll)[i].order = last.updater.v.order
  /\ Len(CollForward(coll)) = 3

\* update(key, ..) on the sorted map sm would throw 'Key not found in sorted
\* collection': the value of the key passes `if (!existing) return;` and
\* lookupValuePath finds no tuple {key, order: getOrderingKey(existing)}
UpdateWouldThrow(sm, key) ==
  /\ Truthy(MapGet(sm.map, key))
  /\ ~lookupValuePath(sm.sortedCollection,
                      KeyWithOrder(key, getOrderingKey(MapGet(sm.map, key)))).found

\* C36: in every state reached by the operations of the adapter alone update
\* does not throw 'Key not found in sorted collection' for any key: the tuple
\* of a key that has a value is found by the lookup; and no call of the run
\* threw.
C36_UpdateFindsTuple ==
  /\ \A k \in SortedMapKeys : ~UpdateWouldThrow(SortedMap, k)
  /\ last.op \in {"set", "update"} => ~last.threw

\* C36 witness: an update of a present key went through the lookup while the
\* collection held a tuple whose order is not that of its key's value
C36_Witness ==
  /\ last.op = "update" /\ last.present /\ Truthy(MapGet(map, last.key))
  /\ ~OrdersAreOfStoredValues(SortedMap)
  /\ CollGetSize(coll) = SortedMapMaxSize

\* --------------------------------------------------------------------------
\* The SortedMap specification of the tests: set, remove and update on a
\* sorted map of objects {data, order} ordered by their order
\* (SortedMapAdapter<K, TestObject> with getOrderingKey: obj => obj.order);
\* the updaters return an object, change the one they are handed in place, or
\* do nothing.  The oracle is the dictionary of the run.
\* --------------------------------------------------------------------------
MaxData == 1

\* the objects of the run: one of each order, and more of order 1 that differ
\* in their data
SortedMapObjects ==
  {[data |-> 0, order |-> o, prim |-> FALSE] : o \in 0..MaxNumber} \cup
  {[data |-> d, order |-> 1, prim |-> FALSE] : d \in 0..MaxData}

SortedMapObjectUpdaters ==
  {[kind |-> "ret", v |-> x] : x \in SortedMapObjects} \cup
  {[kind |-> "mut", v |-> x] : x \in SortedMapObjects} \cup {[kind |-> "noop"]}

\* the keys that are set and removed: 1 and 17 share the first nibble of
\* their hashes
SortedMapStoredKeys == {NumKey(1), NumKey(2), NumKey(17)}

\* the keys of the run: key 18 is never set, it is only updated
SortedMapObjectKeys == SortedMapStoredKeys \cup {NumKey(18)}

ObjSetAct ==
  \E k \in SortedMapStoredKeys, v \in SortedMapObjects :
    \E r \in {SortedMapSet(SortedMap, k, v)} :
      /\ map' = r.sortedMap.map
      /\ coll' = r.sortedMap.sortedCollection
      /\ oracle' = DictPut(oracle, k, v)
      /\ last' = [op |-> "set", key |-> k, value |-> v, threw |-> r.threw]
      /\ UNCHANGED <<adapter, nextOrder>>

ObjRemoveAct ==
  \E k \in SortedMapStoredKeys :
    \E sm \in {SortedMapRemove(SortedMap, k)} :
      /\ map' = sm.map
      /\ coll' = sm.sortedCollection
      /\ oracle' = DictDel(oracle, k)
      /\ last' = [op |-> "remove", key |-> k]
      /\ UNCHANGED <<adapter, nextOrder>>

ObjUpdateAct ==
  \E k \in SortedMapObjectKeys, f \in SortedMapObjectUpdaters :
    \E r \in {SortedMapUpdate(SortedMap, k, f)} :
      /\ map' = r.sortedMap.map
      /\ coll' = r.sortedMap.sortedCollection
      /\ oracle' = IF k \in DOMAIN oracle /\ f.kind # "noop"
                   THEN DictPut(oracle, k, f.v) ELSE oracle
      /\ last' = [op |-> "update", key |-> k, updater |-> f, threw |-> r.threw,
                  invoked |-> r.invoked, ret |-> r.ret]
      /\ UNCHANGED <<adapter, nextOrder>>

NextSortedMapObjects == ObjSetAct \/ ObjRemoveAct \/ ObjUpdateAct

SpecSortedMapObjects == InitSortedMap /\ [][NextSortedMapObjects]_vars

\* the value an updater leaves for a key whose value was `existing`
UpdatedValue(f, existing) == IF f.kind = "noop" THEN existing ELSE f.v

\* the sequence q with the value of key k replaced by v
WithValueOf(q, k, v) == [i \in 1..Len(q) |-> IF q[i][1] = k THEN <<k, v>> ELSE q[i]]

\* the iteration after remove(k) followed by set(k, v)
RemovedThenSet(sm, k, v) ==
  SortedMapIterable(SortedMapSet(SortedMapRemove(sm, k), k, v).sortedMap)

\* another key than k has a tuple of this order
OtherEntryHasOrder(sm, k, order) ==
  \E i \in 1..Len(CollForward(sm.sortedCollection)) :
    /\ CollForward(sm.sortedCollection)[i].key # k
    /\ CollForward(sm.sortedCollection)[i].order = order

\* update(k, f) of a present key led from sm to sm2 and did not change the
\* ordering key: the iteration is the one before, with the new value of k
UpdateKeptPlace(sm, sm2, k, f) ==
  SortedMapIterable(sm2) =
    WithValueOf(SortedMapIterable(sm), k, UpdatedValue(f, SortedMapGet(sm, k)))

\* update(k, f) of a present key led from sm to sm2: the iteration is that of
\* remove(k) followed by set(k, newValue)
UpdateAsRemoveThenSet(sm, sm2, k, f) ==
  SortedMapIterable(sm2) = RemovedThenSet(sm, k, UpdatedValue(f, SortedMapGet(sm, k)))

\* the ordering key of key k is changed by f
ChangesOrderingKey(sm, k, f) ==
  getOrderingKey(UpdatedValue(f, SortedMapGet(sm, k))) # getOrderingKey(SortedMapGet(sm, k))

IteratesInOrder(sm) ==
  \A i \in 1..(Len(SortedMapIterable(sm)) - 1) :
    getOrderingKey(SortedMapIterable(sm)[i][2]) <=
      getOrderingKey(SortedMapIterable(sm)[i + 1][2])

SortedMapReadsSame(sm, sm2) ==
  /\ SortedMapGetSize(sm2) = SortedMapGetSize(sm)
  /\ \A k \in SortedMapObjectKeys :
       /\ SortedMapHas(sm2, k) = SortedMapHas(sm, k)
       /\ SortedMapGet(sm2, k) = SortedMapGet(sm, k)
  /\ SortedMapIterable(sm2) = SortedMapIterable(sm)

\* C18: update(K, F) of a key that is not in the map does not invoke F, throws
\* nothing, returns undefined and leaves the size, the result of get and has
\* for every key and the iteration as they were.
C18_UpdateAbsentIsSilent ==
  [][(last'.op = "update" /\ ~SortedMapHas(SortedMap, last'.key)) =>
       /\ ~last'.invoked /\ ~last'.threw /\ last'.ret = Undefined
       /\ SortedMapReadsSame(SortedMap, [map |-> map', sortedCollection |-> coll'])]_vars

\* C18 witness: key 17 was updated by an updater that changes its argument in
\* place while it was absent and key 1, which shares the first nibble of its
\* hash, and another key were in the map
C18_Witness ==
  /\ last.op = "update" /\ last.key = NumKey(17) /\ last.updater.kind = "mut"
  /\ ~SortedMapHas(SortedMap, NumKey(17))
  /\ SortedMapHas(SortedMap, NumKey(1))
  /\ SortedMapGetSize(SortedMap) = 2



\* --------------------------------------------------------------------------
\* The SortedMap specification of values changed behind the adapter's back:
\* set and remove as above, and a change in place of the order of a stored
\* object that does not go through update (the tuple of the key keeps the
\* order it had).
\* --------------------------------------------------------------------------
\* the sets, of the keys 1 and 17, stop when the collection holds
\* DriftMaxSize tuples
DriftMaxSize == 3

DriftSetAct ==
  \E k \in SortedMapKeys, v \in SortedMapObjects :
    \E r \in {SortedMapSet(SortedMap, k, v)} :
      /\ CollGetSize(coll) < DriftMaxSize
      /\ map' = r.sortedMap.map
      /\ coll' = r.sortedMap.sortedCollection
      /\ oracle' = DictPut(oracle, k, v)
      /\ last' = [op |-> "set", key |-> k, value |-> v, threw |-> r.threw]
      /\ UNCHANGED <<adapter, nextOrder>>

\* `get(sortedMap, k).order = v.order` by the caller
DriftAct ==
  \E k \in SortedMapKeys, v \in SortedMapObjects :
    /\ SortedMapHas(SortedMap, k)
    /\ SortedMapGet(SortedMap, k).data = v.data
    /\ SortedMapGet(SortedMap, k).order # v.order
    /\ map' = StoreInPlace(map, k, v)
    /\ oracle' = DictPut(oracle, k, v)
    /\ last' = [op |-> "mutate", key |-> k, value |-> v]
    /\ UNCHANGED <<adapter, coll, nextOrder>>

NextSortedMapDrift == DriftSetAct \/ ObjRemoveAct \/ DriftAct

SpecSortedMapDrift == InitSortedMap /\ [][NextSortedMapDrift]_vars

\* the order of the tuple of k differs from the ordering key of k's value
Drifted(sm, k) ==
  \E i \in 1..Len(CollForward(sm.sortedCollection)) :
    /\ CollForward(sm.sortedCollection)[i].key = k
    /\ CollForward(sm.sortedCollection)[i].order # getOrderingKey(SortedMapGet(sm, k))

\* the keys of the trie are the keys of the tuples, one tuple each
SameKeys(sm) ==
  /\ SeqRange(CollKeys(sm.sortedCollection)) =
       {k \in SortedMapObjectKeys : MapHas(sm.map, k)}
  /\ Len(CollKeys(sm.sortedCollection)) = MapGetSize(sm.map)

\* what C19 says of a remove(k) that led from sm to sm2
RemovedFromBoth(sm, sm2, k) ==
  /\ ~MapHas(sm2.map, k)
  /\ k \notin SeqRange(CollKeys(sm2.sortedCollection))
  /\ SameKeys(sm2)
  /\ SortedMapGetSize(sm2) = SortedMapGetSize(sm) - 1

\* C19: remove(K) of a present key whose value had its order changed in place,
\* so that the order of K's tuple is no longer the ordering key of the value,
\* removes K from the trie and from the collection: the key sets stay the
\* same and the size drops by one.
C19_RemoveFindsDriftedTuple ==
  [][(last'.op = "remove" /\ SortedMapHas(SortedMap, last'.key)
        /\ SameKeys(SortedMap) /\ Drifted(SortedMap, last'.key)) =>
       RemovedFromBoth(SortedMap, [map |-> map', sortedCollection |-> coll'],
                       last'.key)]_vars


\* --------------------------------------------------------------------------
\* The specification of the two ends.  A run is either on a collection of
\* numbers of the adapter the tests build (inserts and removes, as in the
\* SortedCollection specification) or on a sorted map of numbers (sets and
\* removes, as in the SortedMap specification); the oracle is that of the
\* specification the run follows.
\* --------------------------------------------------------------------------
InitEnds ==
  /\ adapter \in {TestCollectionAdapter, SortedMapCollectionAdapter}
  /\ map = MapCreate
  /\ coll = createBTreeRootNode
  /\ nextOrder = 0
  /\ oracle = IF adapter = TestCollectionAdapter THEN [v \in CollValues |-> 0]
              ELSE <<>>
  /\ last = Idle

EndsInsertAct == adapter = TestCollectionAdapter /\ CollInsertAct

EndsCollRemoveAct == adapter = TestCollectionAdapter /\ CollRemoveAct

EndsSetAct == adapter = SortedMapCollectionAdapter /\ SortedMapSetAct

EndsRemoveAct == adapter = SortedMapCollectionAdapter /\ SortedMapRemoveAct

NextEnds == EndsInsertAct \/ EndsCollRemoveAct \/ EndsSetAct \/ EndsRemoveAct

SpecEnds == InitEnds /\ [][NextEnds]_vars

\* getFirst and getLast of the collection are the two ends of its forward
\* iteration, a minimum and a maximum under orderComparer, and undefined
\* exactly when its size is 0
CollEndsAreFirstAndLast(c) ==
  /\ CollGetFirst(c) = IF CollForward(c) = <<>> THEN Undefined ELSE CollForward(c)[1]
  /\ CollGetLast(c) = IF CollForward(c) = <<>> THEN Undefined
                      ELSE CollForward(c)[Len(CollForward(c))]
  /\ \A i \in 1..Len(CollForward(c)) :
       /\ orderComparer(CollGetFirst(c), CollForward(c)[i]) <= 0
       /\ orderComparer(CollGetLast(c), CollForward(c)[i]) >= 0
  /\ (CollGetFirst(c) = Undefined) <=> (CollGetSize(c) = 0)
  /\ (CollGetLast(c) = Undefined) <=> (CollGetSize(c) = 0)

\* the same of the sorted map: the ends are the values of the first and the
\* last pair of getIterable, a minimum and a maximum under the ordering keys
\* of the values
SortedMapEndsAreFirstAndLast(sm) ==
  /\ (SortedMapGetFirst(sm) = Undefined) <=> (SortedMapGetSize(sm) = 0)
  /\ (SortedMapGetLast(sm) = Undefined) <=> (SortedMapGetSize(sm) = 0)
  /\ SortedMapGetSize(sm) # 0 =>
       /\ SortedMapGetFirst(sm) = SortedMapIterable(sm)[1][2]
       /\ SortedMapGetLast(sm) = SortedMapIterable(sm)[Len(SortedMapIterable(sm))][2]
       /\ \A i \in 1..Len(SortedMapIterable(sm)) :
            /\ SortedMapIterable(sm)[i][2] # Undefined
            /\ getOrderingKey(SortedMapGetFirst(sm)) <=
                 getOrderingKey(SortedMapIterable(sm)[i][2])
            /\ getOrderingKey(SortedMapGetLast(sm)) >=
                 getOrderingKey(SortedMapIterable(sm)[i][2])

\* C26: getFirst returns the element forward iteration yields first, a
\* minimum under the ordering, and getLast the one it yields last, a maximum,
\* for the SortedCollection and for the SortedMap after any sequence of
\* operations; both return undefined exactly when the container is empty.
C26_FirstAndLastAreTheEnds ==
  IF adapter = TestCollectionAdapter THEN CollEndsAreFirstAndLast(coll)
  ELSE SortedMapEndsAreFirstAndLast(SortedMap)

\* the ends of the collection, also of the collection of tuples a sorted map
\* holds
CollEndsAlways == CollEndsAreFirstAndLast(coll)

\* the ends of a sorted map
SortedMapEndsAlways == SortedMapEndsAreFirstAndLast(SortedMap)


\* --------------------------------------------------------------------------
\* The construction specification.  A run constructs one
\* SortedCollectionAdapter with a maxItemsPerLevel of -MaxLevelArg ..
\* MaxLevelArg or with none, and when the constructor did not throw, inserts
\* numbers with the adapter it made.
\* --------------------------------------------------------------------------
MaxLevelArg == 9

NewMaxSize == 5

LevelArgs == {[n |-> k] : k \in (0 - MaxLevelArg) .. MaxLevelArg}

\* no adapter has been constructed
NoAdapter == [maxItemsPerLevel |-> 0, orderComparer |-> "none"]

InitNew ==
  /\ adapter = NoAdapter
  /\ map = MapCreate
  /\ coll = createBTreeRootNode
  /\ nextOrder = 0
  /\ oracle = <<>>
  /\ last = Idle

NewAct ==
  \E arg \in LevelArgs \cup {Undefined} :
    \E r \in {SortedCollectionAdapterNew(arg)} :
      /\ last = Idle
      /\ adapter' = IF r.threw THEN adapter ELSE r.adapter
      /\ last' = [op |-> "new", arg |-> arg, threw |-> r.threw]
      /\ UNCHANGED <<map, coll, nextOrder, oracle>>

NewInsertAct ==
  \E v \in CollValues :
    /\ adapter # NoAdapter
    /\ CollGetSize(coll) < NewMaxSize
    /\ coll' = CollInsert(coll, v)
    /\ last' = [op |-> "insert", value |-> v]
    /\ UNCHANGED <<adapter, map, nextOrder, oracle>>

NextNew == NewAct \/ NewInsertAct

SpecNew == InitNew /\ [][NextNew]_vars

\* C25: constructing a SortedCollectionAdapter throws for every
\* maxItemsPerLevel that is odd or smaller than 4 and succeeds for every even
\* value of 4 or more.
C25_ConstructorRejectsInvalidLevels ==
  (last.op = "new" /\ last.arg # Undefined) =>
    (last.threw <=> (last.arg.n % 2 = 1 \/ last.arg.n < 4))

\* the constructor as the code has it: 0 is taken for no argument, and the
\* adapter is built with the default maxItemsPerLevel
ConstructorRejectsAllButZero ==
  (last.op = "new" /\ last.arg # Undefined) =>
    /\ last.threw <=> (last.arg.n # 0 /\ (last.arg.n % 2 = 1 \/ last.arg.n < 4))
    /\ ~last.threw => adapter.maxItemsPerLevel =
                        IF last.arg.n = 0 THEN MAX_ITEMS_PER_LEVEL ELSE last.arg.n


\* --------------------------------------------------------------------------
\* The iteration specification.  A run is either on a collection of numbers
\* of the adapter the tests build (maxItemsPerLevel: 4), which grows to a tree
\* of two levels, or on a sorted map of objects.  The caller asks for an
\* iterable object, keeps it, and hands it to Array.from up to MaxTraversals
\* times while the container stays as it is; `last` holds the object and the
\* arrays it gave.
\* --------------------------------------------------------------------------
MaxTraversals == 3

IterCollMaxSize == 7

IterableKinds == {"entries", "keys", "values", "view"}

InitIter ==
  /\ adapter \in {TestCollectionAdapter, SortedMapCollectionAdapter}
  /\ map = MapCreate
  /\ coll = createBTreeRootNode
  /\ nextOrder = 0
  /\ oracle = <<>>
  /\ last = Idle

IterInsertAct ==
  \E v \in CollValues :
    /\ adapter = TestCollectionAdapter
    /\ CollGetSize(coll) < IterCollMaxSize
    /\ coll' = CollInsert(coll, v)
    /\ last' = [op |-> "insert", value |-> v]
    /\ UNCHANGED <<adapter, map, nextOrder, oracle>>

IterSetAct ==
  \E k \in SortedMapStoredKeys, v \in SortedMapObjects :
    \E r \in {SortedMapSet(SortedMap, k, v)} :
      /\ adapter = SortedMapCollectionAdapter
      /\ ~SortedMapHas(SortedMap, k)
      /\ map' = r.sortedMap.map
      /\ coll' = r.sortedMap.sortedCollection
      /\ last' = [op |-> "set", key |-> k, value |-> v]
      /\ UNCHANGED <<adapter, nextOrder, oracle>>

\* const iterable = adapter.getIterable(collection)
CollGetIterableAct ==
  /\ adapter = TestCollectionAdapter
  /\ last.op \in {"init", "insert"}
  /\ last' = [op |-> "getIterable", iterable |-> CollGetIterable(coll),
              arrays |-> <<>>]
  /\ UNCHANGED <<adapter, map, coll, nextOrder, oracle>>

\* const iterable = adapter.getIterable(sortedMap), getKeysIterable,
\* getValuesIterable or asReadonlyMap
SortedMapGetIterableAct ==
  \E kind \in IterableKinds :
    /\ adapter = SortedMapCollectionAdapter
    /\ last.op \in {"init", "set"}
    /\ last' = [op |-> "getIterable",
                iterable |-> IF kind = "view" THEN SortedMapAsReadonlyMap(SortedMap)
                             ELSE SortedMapGetIterable(SortedMap, kind),
                arrays |-> <<>>]
    /\ UNCHANGED <<adapter, map, coll, nextOrder, oracle>>

\* Array.from(iterable) of the object the caller holds
TraverseAct ==
  /\ last.op \in {"getIterable", "traverse"}
  /\ Len(last.arrays) < MaxTraversals
  /\ \E r \in {ArrayFrom(SortedMap, last.iterable)} :
       last' = [op |-> "traverse", iterable |-> r.iterable,
                arrays |-> Append(last.arrays, r.array)]
  /\ UNCHANGED <<adapter, map, coll, nextOrder, oracle>>

NextIter ==
  \/ IterInsertAct
  \/ IterSetAct
  \/ CollGetIterableAct
  \/ SortedMapGetIterableAct
  \/ TraverseAct

SpecIter == InitIter /\ [][NextIter]_vars

\* C20: restartable iteration.  While the container is unchanged, each
\* traversal of the same iterable object - the one returned by getIterable,
\* getKeysIterable, getValuesIterable, or a read-only view - yields the same
\* non-empty sequence as the first traversal of it, the second and the third
\* time as well.
C20_RestartableIteration ==
  (last.op = "traverse" /\ CollGetSize(coll) > 0) =>
    \A i \in 1..Len(last.arrays) :
      /\ last.arrays[i] # <<>>
      /\ last.arrays[i] = last.arrays[1]

\* the first traversal of an iterable object yields the container's values in
\* order: the tuples of the collection, or what the sorted map makes of them
FirstTraversalIsComplete ==
  last.op = "traverse" =>
    last.arrays[1] =
      IF last.iterable.kind = "collection" THEN CollForward(coll)
      ELSE mapIterable(last.iterable.kind, SortedMap, CollForward(coll))

\* the iterator of a read-only view is restartable: every traversal of
\* the view yields the sequence of the first
ViewIteratorRestarts ==
  (last.op = "traverse" /\ last.iterable.kind = "view") =>
    \A i \in 1..Len(last.arrays) : last.arrays[i] = SortedMapIterable(SortedMap)

\* three traversals of one iterable object of a collection of two levels
ThreeTraversalsOfATree ==
  /\ last.op = "traverse" /\ Len(last.arrays) = 3
  /\ last.iterable.kind = "collection"
  /\ ~coll.root.leaf
  /\ Len(last.arrays[1]) = IterCollMaxSize


\* --------------------------------------------------------------------------
\* The LruCache specification.  The keys are numbers; a set of a key that was
\* never set takes the keys in their order, and the calls on present keys go
\* to the keys of LruHotKeys, MaxTouches of them in a run.  The ghost oracle
\* is [recency, fresh, touches]: the present keys from the least to the most
\* recently touched, the number of keys set so far and the number of calls
\* made on hot keys that were set before.
\* --------------------------------------------------------------------------
\* nextOrder stops the calls at MaxOrder
MaxOrder == 14

MaxTouches == 2

LruKey(n) == NumKey(n)

LruHotKeys == {LruKey(1), LruKey(2)}

LruValues == {Num(n) : n \in 0..MaxValue}

LruUpdaters == {[kind |-> "ret", v |-> x] : x \in LruValues} \cup {[kind |-> "noop"]}

Lru == [map |-> map, sortedCollection |-> coll, nextOrder |-> nextOrder]

\* a recency list without key
RECURSIVE Without(_, _)
Without(recency, key) ==
  IF recency = <<>> THEN <<>>
  ELSE IF Head(recency) = key THEN Without(Tail(recency), key)
  ELSE <<Head(recency)>> \o Without(Tail(recency), key)

\* the recency list after a touch of key
Touched(recency, key) == Append(Without(recency, key), key)

\* the recency list without the keys that are not in the cache
RECURSIVE Present(_, _)
Present(recency, lru) ==
  IF recency = <<>> THEN <<>>
  ELSE IF LruHas(lru, Head(recency))
       THEN <<Head(recency)>> \o Present(Tail(recency), lru)
       ELSE Present(Tail(recency), lru)

InitLru ==
  /\ adapter = SortedMapCollectionAdapter
  /\ map = LruCreate.map
  /\ coll = LruCreate.sortedCollection
  /\ nextOrder = LruCreate.nextOrder
  /\ oracle = [recency |-> <<>>, fresh |-> 0, touches |-> 0]
  /\ last = Idle

LruSetOn(keys, values) ==
  \E k \in keys, v \in values :
    \E r \in {LruSet(Lru, k, v)} :
       /\ nextOrder < MaxOrder
       /\ map' = r.lru.map
       /\ coll' = r.lru.sortedCollection
       /\ nextOrder' = r.lru.nextOrder
       /\ oracle' = [recency |-> Present(Touched(oracle.recency, k), r.lru),
                     fresh |-> IF k = LruKey(oracle.fresh + 1)
                               THEN oracle.fresh + 1 ELSE oracle.fresh,
                     touches |-> IF k = LruKey(oracle.fresh + 1)
                                 THEN oracle.touches ELSE oracle.touches + 1]
       /\ last' = [op |-> "set", key |-> k, evicted |-> r.evicted,
                   recency |-> Touched(oracle.recency, k),
                   threw |-> r.threw, followed |-> r.followed]
       /\ UNCHANGED adapter

\* set of the next key that was never set
LruSetFreshAct == LruSetOn({LruKey(oracle.fresh + 1)}, {Num(0)})

\* set of a hot key that was set before
LruSetAgainAct ==
  /\ oracle.touches < MaxTouches
  /\ LruSetOn({k \in LruHotKeys : \E n \in 1..oracle.fresh : k = LruKey(n)}, LruValues)

LruGetAct ==
  \E k \in LruHotKeys :
    \E r \in {LruGet(Lru, k)} :
       /\ nextOrder < MaxOrder
       /\ oracle.touches < MaxTouches
       /\ map' = r.lru.map
       /\ coll' = r.lru.sortedCollection
       /\ nextOrder' = r.lru.nextOrder
       /\ oracle' = [oracle EXCEPT !.recency =
                       IF LruHas(Lru, k) THEN Touched(@, k) ELSE @,
                                   !.touches = @ + 1]
       /\ last' = [op |-> "get", key |-> k, ret |-> r.ret, threw |-> r.threw]
       /\ UNCHANGED adapter

LruUpdateAct ==
  \E k \in LruHotKeys, f \in LruUpdaters :
    \E r \in {LruUpdate(Lru, k, f)} :
       /\ nextOrder < MaxOrder
       /\ oracle.touches < MaxTouches
       /\ map' = r.lru.map
       /\ coll' = r.lru.sortedCollection
       /\ nextOrder' = r.lru.nextOrder
       /\ oracle' = [oracle EXCEPT !.recency =
                       IF LruHas(Lru, k) THEN Touched(@, k) ELSE @,
                                   !.touches = @ + 1]
       /\ last' = [op |-> "update", key |-> k, ret |-> r.ret, threw |-> r.threw]
       /\ UNCHANGED adapter

LruRemoveAct ==
  \E k \in LruHotKeys :
    \E lru \in {LruRemove(Lru, k)} :
       /\ map' = lru.map
       /\ coll' = lru.sortedCollection
       /\ nextOrder' = lru.nextOrder
       /\ oracle' = [oracle EXCEPT !.recency = Without(@, k)]
       /\ last' = [op |-> "remove", key |-> k]
       /\ UNCHANGED adapter

NextLru ==
  LruSetFreshAct \/ LruSetAgainAct \/ LruGetAct \/ LruUpdateAct \/ LruRemoveAct

SpecLru == InitLru /\ [][NextLru]_vars

\* no set of the runs left the part of the eviction loop the model follows
LruAlwaysFollowed == last.op = "set" => last.followed /\ ~last.threw

\* C6: the size never exceeds suggestedSize * 1.1, and right after a set that
\* evicted it does not exceed suggestedSize.
C6_LruCapacity ==
  /\ 10 * LruGetSize(Lru) <= 11 * suggestedSize
  /\ (last.op = "set" /\ last.evicted # <<>>) => LruGetSize(Lru) <= suggestedSize

\* C7: forward iteration lists the present keys from the least recently to
\* the most recently touched.
C7_LruRecencyOrder ==
  LET it == LruIterable(Lru)
  IN [i \in 1..Len(it) |-> it[i][1]] = oracle.recency

\* C8: the keys a set evicts are the least recently touched ones, in that
\* order: the n evicted keys are the first n keys of the recency order the
\* cache had when the eviction began.
C8_EvictsLeastRecent ==
  (last.op = "set" /\ last.evicted # <<>>) =>
     last.evicted = SubSeq(last.recency, 1, Len(last.evicted))


\* C6 witness: a set found more than suggestedSize * 1.1 entries, evicted, and
\* left suggestedSize entries, one of them a key that was touched before.
C6_Witness ==
  /\ last.op = "set" /\ Len(last.evicted) >= 2
  /\ LruGetSize(Lru) = suggestedSize
  /\ oracle.touches > 0

\* C7 witness: a get moved the least recently touched of more than two keys
\* to the end of the iteration.
C7_Witness ==
  /\ last.op = "get" /\ last.ret # Undefined
  /\ Len(oracle.recency) > 2
  /\ oracle.recency[Len(oracle.recency)] = last.key
  /\ last.key = LruKey(1)
  /\ LruIterable(Lru)[1][1] = LruKey(2)

\* --------------------------------------------------------------------------
\* The LruCache specification of the payloads.  set, get, peek, update and
\* remove on the keys 1 and 2, and get, peek, update and remove on key 3, which
\* is never set; the cache stays below the size at which set evicts.  The
\* oracle is [recency, payload]: the present keys from the least to the most
\* recently touched, and the dictionary of their payloads.
\* --------------------------------------------------------------------------
\* nextOrder stops the calls that touch at PayMaxOrder
PayMaxOrder == 4

PayKeys == LruHotKeys \cup {LruKey(3)}

InitPay ==
  /\ adapter = SortedMapCollectionAdapter
  /\ map = LruCreate.map
  /\ coll = LruCreate.sortedCollection
  /\ nextOrder = LruCreate.nextOrder
  /\ oracle = [recency |-> <<>>, payload |-> <<>>]
  /\ last = Idle

PaySetAct ==
  \E k \in LruHotKeys, v \in LruValues :
    \E r \in {LruSet(Lru, k, v)} :
       /\ nextOrder < PayMaxOrder
       /\ map' = r.lru.map
       /\ coll' = r.lru.sortedCollection
       /\ nextOrder' = r.lru.nextOrder
       /\ oracle' = [recency |-> Touched(oracle.recency, k),
                     payload |-> DictPut(oracle.payload, k, v)]
       /\ last' = [op |-> "set", key |-> k, value |-> v, threw |-> r.threw]
       /\ UNCHANGED adapter

PayGetAct ==
  \E k \in PayKeys :
    \E r \in {LruGet(Lru, k)} :
       /\ nextOrder < PayMaxOrder
       /\ map' = r.lru.map
       /\ coll' = r.lru.sortedCollection
       /\ nextOrder' = r.lru.nextOrder
       /\ oracle' = [oracle EXCEPT !.recency =
                       IF k \in DOMAIN oracle.payload THEN Touched(@, k) ELSE @]
       /\ last' = [op |-> "get", key |-> k, ret |-> r.ret, threw |-> r.threw,
                   invoked |-> r.invoked, present |-> k \in DOMAIN oracle.payload]
       /\ UNCHANGED adapter

\* peek reads the sorted map and writes nothing
PayPeekAct ==
  \E k \in PayKeys :
    /\ last' = [op |-> "peek", key |-> k, ret |-> LruPeek(Lru, k),
                present |-> k \in DOMAIN oracle.payload]
    /\ UNCHANGED <<adapter, map, coll, nextOrder, oracle>>

PayUpdateAct ==
  \E k \in PayKeys, f \in LruUpdaters :
    \E r \in {LruUpdate(Lru, k, f)} :
       /\ nextOrder < PayMaxOrder
       /\ map' = r.lru.map
       /\ coll' = r.lru.sortedCollection
       /\ nextOrder' = r.lru.nextOrder
       /\ oracle' = IF k \notin DOMAIN oracle.payload THEN oracle
                    ELSE [recency |-> Touched(oracle.recency, k),
                          payload |-> IF f.kind = "ret"
                                      THEN DictPut(oracle.payload, k, f.v)
                                      ELSE oracle.payload]
       /\ last' = [op |-> "update", key |-> k, ret |-> r.ret, threw |-> r.threw,
                   invoked |-> r.invoked, updater |-> f,
                   present |-> k \in DOMAIN oracle.payload]
       /\ UNCHANGED adapter

PayRemoveAct ==
  \E k \in PayKeys :
    \E lru \in {LruRemove(Lru, k)} :
       /\ map' = lru.map
       /\ coll' = lru.sortedCollection
       /\ nextOrder' = lru.nextOrder
       /\ oracle' = [recency |-> Without(oracle.recency, k),
                     payload |-> DictDel(oracle.payload, k)]
       /\ last' = [op |-> "remove", key |-> k]
       /\ UNCHANGED adapter

NextPay == PaySetAct \/ PayGetAct \/ PayPeekAct \/ PayUpdateAct \/ PayRemoveAct

SpecPay == InitPay /\ [][NextPay]_vars

\* the payload getIterable pairs with key, undefined when it yields no pair
\* of key
PayloadOf(lru, key) ==
  IF \E i \in 1..Len(LruIterable(lru)) : LruIterable(lru)[i][1] = key
  THEN LruIterable(lru)[CHOOSE i \in 1..Len(LruIterable(lru)) :
                         LruIterable(lru)[i][1] = key][2]
  ELSE Undefined

\* C27: peek(K) returns the payload of K, undefined when K is absent, and
\* leaves the cache unchanged: nextOrder, the trie with the order stamp of
\* every entry, the collection and so the iteration order are the same before
\* and after the call.
C27_PeekReadsOnly ==
  [][last'.op = "peek" =>
       /\ last'.ret = PayloadOf(Lru, last'.key)
       /\ last'.present <=> LruHas(Lru, last'.key)
       /\ nextOrder' = nextOrder
       /\ map' = map
       /\ coll' = coll
       /\ LruIterable([map |-> map', sortedCollection |-> coll',
                       nextOrder |-> nextOrder']) = LruIterable(Lru)]_vars

\* C27 witness: a peek of the least recently touched of two keys returned its
\* payload, 0, and the key is still the first of the iteration
C27_Witness ==
  /\ last.op = "peek" /\ last.present /\ last.ret = Num(0)
  /\ Len(oracle.recency) = 2 /\ oracle.recency[1] = last.key
  /\ LruIterable(Lru)[1] = <<last.key, Num(0)>>

\* C27 witness of the absent key
C27_WitnessAbsent ==
  /\ last.op = "peek" /\ ~last.present /\ last.ret = Undefined
  /\ Len(oracle.recency) = 2

\* C28: get(K) and update(K, F) on a key that is not in the cache return
\* undefined and leave the cache unchanged: no entry is added, size and
\* iteration order are unchanged, F is not invoked and nextOrder is not
\* advanced.
C28_AbsentGetAndUpdateAreSilent ==
  [][(last'.op \in {"get", "update"} /\ ~LruHas(Lru, last'.key)) =>
       /\ last'.ret = Undefined
       /\ ~last'.invoked /\ ~last'.threw
       /\ nextOrder' = nextOrder
       /\ map' = map
       /\ coll' = coll
       /\ LruGetSize([map |-> map', sortedCollection |-> coll',
                      nextOrder |-> nextOrder']) = LruGetSize(Lru)
       /\ LruIterable([map |-> map', sortedCollection |-> coll',
                       nextOrder |-> nextOrder']) = LruIterable(Lru)]_vars

\* C28 witness: an update of a key that was removed, with an updater that
\* returns a value, on a cache that holds another key
C28_Witness ==
  /\ last.op = "update" /\ ~last.present /\ last.updater.kind = "ret"
  /\ last.key \in LruHotKeys
  /\ ~LruHas(Lru, last.key)
  /\ Len(oracle.recency) = 1 /\ nextOrder >= 2

\* C28 witness of get: a get of the key that is never set
C28_WitnessGet ==
  /\ last.op = "get" /\ ~last.present /\ last.key = LruKey(3)
  /\ Len(oracle.recency) = 2

\* the cache after the step
LruNext == [map |-> map', sortedCollection |-> coll', nextOrder |-> nextOrder']

\* what C29 says of an update(key, f) that led from lru to lru2 and
\* returned ret
UpdatedPayload(lru, lru2, key, f, ret) ==
  /\ PayloadOf(lru2, key) = IF f.kind = "ret" THEN f.v ELSE PayloadOf(lru, key)
  /\ ret = PayloadOf(lru2, key)
  /\ LruIterable(lru2)[Len(LruIterable(lru2))][1] = key
  /\ LruGetSize(lru2) = LruGetSize(lru)

\* C29: update(K, F) on a present key replaces the payload with the value F
\* returns, whatever value that is, and keeps the payload when F returns
\* none; it makes K the most recently touched entry, leaves the size
\* unchanged and returns the resulting payload.
C29_UpdateStoresReturnedPayload ==
  [][(last'.op = "update" /\ LruHas(Lru, last'.key)) =>
       UpdatedPayload(Lru, LruNext, last'.key, last'.updater, last'.ret)]_vars

\* the same for the updaters that return nothing or a truthy payload
UpdateStoresTruthyPayload ==
  [][(last'.op = "update" /\ LruHas(Lru, last'.key)
        /\ (last'.updater.kind = "ret" => Truthy(last'.updater.v))) =>
       UpdatedPayload(Lru, LruNext, last'.key, last'.updater, last'.ret)]_vars

\* --------------------------------------------------------------------------
\* The specification of the recency stamps: set, get, peek, has, update and
\* remove on an LRU cache of three keys, two of them set.  oracle is the set
\* of the present keys.
\* --------------------------------------------------------------------------
\* nextOrder stops the calls that stamp at StampMaxOrder
StampMaxOrder == 5

InitStamp ==
  /\ adapter = SortedMapCollectionAdapter
  /\ map = LruCreate.map
  /\ coll = LruCreate.sortedCollection
  /\ nextOrder = LruCreate.nextOrder
  /\ oracle = {}
  /\ last = Idle

StampSetAct ==
  \E k \in LruHotKeys, v \in LruValues :
    \E r \in {LruSet(Lru, k, v)} :
       /\ nextOrder < StampMaxOrder
       /\ map' = r.lru.map
       /\ coll' = r.lru.sortedCollection
       /\ nextOrder' = r.lru.nextOrder
       /\ oracle' = oracle \cup {k}
       /\ last' = [op |-> "set", key |-> k, present |-> k \in oracle,
                   threw |-> r.threw]
       /\ UNCHANGED adapter

StampGetAct ==
  \E k \in PayKeys :
    \E r \in {LruGet(Lru, k)} :
       /\ nextOrder < StampMaxOrder
       /\ map' = r.lru.map
       /\ coll' = r.lru.sortedCollection
       /\ nextOrder' = r.lru.nextOrder
       /\ last' = [op |-> "get", key |-> k, present |-> k \in oracle,
                   threw |-> r.threw]
       /\ UNCHANGED <<adapter, oracle>>

StampPeekAct ==
  \E k \in PayKeys :
    /\ last' = [op |-> "peek", key |-> k, present |-> k \in oracle,
                ret |-> LruPeek(Lru, k)]
    /\ UNCHANGED <<adapter, map, coll, nextOrder, oracle>>

\* has reads the sorted map and writes nothing
StampHasAct ==
  \E k \in PayKeys :
    /\ last' = [op |-> "has", key |-> k, present |-> k \in oracle,
                ret |-> LruHas(Lru, k)]
    /\ UNCHANGED <<adapter, map, coll, nextOrder, oracle>>

StampUpdateAct ==
  \E k \in PayKeys, f \in LruUpdaters :
    \E r \in {LruUpdate(Lru, k, f)} :
       /\ nextOrder < StampMaxOrder
       /\ map' = r.lru.map
       /\ coll' = r.lru.sortedCollection
       /\ nextOrder' = r.lru.nextOrder
       /\ last' = [op |-> "update", key |-> k, present |-> k \in oracle,
                   threw |-> r.threw]
       /\ UNCHANGED <<adapter, oracle>>

StampRemoveAct ==
  \E k \in PayKeys :
    \E lru \in {LruRemove(Lru, k)} :
       /\ map' = lru.map
       /\ coll' = lru.sortedCollection
       /\ nextOrder' = lru.nextOrder
       /\ oracle' = oracle \ {k}
       /\ last' = [op |-> "remove", key |-> k, present |-> k \in oracle]
       /\ UNCHANGED adapter

NextStamp ==
  \/ StampSetAct
  \/ StampGetAct
  \/ StampPeekAct
  \/ StampHasAct
  \/ StampUpdateAct
  \/ StampRemoveAct

SpecStamp == InitStamp /\ [][NextStamp]_vars

\* the order stamps of the entries of lru: the orders of the wrappers the trie
\* holds and of the tuples of the collection
StampOf(lru, key) == SortedMapGet(LruSortedMap(lru), key).order

StampedKeys(lru) == SeqRange(CollKeys(lru.sortedCollection))

\* every stamp is below nextOrder, and the stamps of two entries differ; the
\* tuple of an entry carries the stamp of its wrapper
StampsInOrder(lru) ==
  /\ \A k \in StampedKeys(lru) : LruHas(lru, k)
  /\ \A i \in 1..Len(CollForward(lru.sortedCollection)) :
       LET tuple == CollForward(lru.sortedCollection)[i]
       IN /\ tuple.order = StampOf(lru, tuple.key)
          /\ tuple.order < lru.nextOrder
          /\ \A j \in 1..Len(CollForward(lru.sortedCollection)) :
               i # j => CollForward(lru.sortedCollection)[j].order # tuple.order

\* the call of a step stamps: a set, and a get or an update of a present key
Stamping(call, lru) ==
  \/ call.op = "set"
  \/ call.op \in {"get", "update"} /\ LruHas(lru, call.key)

\* C37: nextOrder never decreases, it is greater than the order stamp of
\* every entry, and the stamps of distinct entries differ; a set, and a get
\* or an update of a present key, advance nextOrder by exactly one, and peek,
\* has, remove and a get or an update of an absent key leave it as it is.
C37_RecencyStamps ==
  [][/\ StampsInOrder(Lru) /\ StampsInOrder(LruNext)
     /\ nextOrder' >= nextOrder
     /\ last'.present <=> LruHas(Lru, last'.key)
     /\ nextOrder' = IF Stamping(last', Lru) THEN nextOrder + 1 ELSE nextOrder
     /\ Stamping(last', Lru) => StampOf(LruNext, last'.key) = nextOrder]_vars

\* C37 witness: two entries are stamped, the last call was a get of a present
\* key and it took the stamp 3
C37_Witness ==
  /\ last.op = "get" /\ last.present
  /\ Len(CollForward(coll)) = 2
  /\ nextOrder = 4
  /\ StampOf(Lru, last.key) = 3

\* C37 witness: has of a present key and a get of an absent key after three
\* stamps
C37_WitnessReads ==
  /\ last.op \in {"has", "get"} /\ (last.op = "has" <=> last.present)
  /\ nextOrder = 3

\* the stamps in the runs with eviction
StampsInOrderOfLru == StampsInOrder(Lru)

\* the steps of the runs with eviction advance nextOrder in the same way
StampsAdvanceInLru ==
  [][/\ nextOrder' = IF Stamping(last', Lru) THEN nextOrder + 1 ELSE nextOrder]_vars

\* --------------------------------------------------------------------------
\* The specification of the read-only views: set and remove on a sorted map
\* of objects, asReadonlyMap and keysAsReadonlySet, and reads of the members
\* of the view made last.  oracle is [dict, view]: the dictionary of the run
\* and the view, NoView before the first one is made.
\* --------------------------------------------------------------------------
NoView == [kind |-> "none", size |-> 0]

\* The object asReadonlyMap / keysAsReadonlySet returns.  Its functions close
\* over the adapter and the container and call the adapter at every use; its
\* `size` is a data property, `this.getSize(sortedMap)` evaluated when the
\* object literal is.
SortedMapView(sm, kind) == [kind |-> kind, size |-> SortedMapGetSize(sm)]

\* view.size
ViewSize(view) == view.size

\* view.get(key): `(key) => this.get(sortedMap, key)`, sm the container now
ViewGet(view, sm, key) == SortedMapGet(sm, key)

\* view.has(key): `(key) => this.has(sortedMap, key)`
ViewHas(view, sm, key) == SortedMapHas(sm, key)

\* [...view]: getIterable(sortedMap) for a map, getKeysIterable(sortedMap) for
\* a set
ViewIteration(view, sm) ==
  IF view.kind = "set"
  THEN [i \in 1..Len(SortedMapIterable(sm)) |-> SortedMapIterable(sm)[i][1]]
  ELSE SortedMapIterable(sm)

InitView ==
  /\ adapter = SortedMapCollectionAdapter
  /\ map = SortedMapCreate.map
  /\ coll = SortedMapCreate.sortedCollection
  /\ nextOrder = 0
  /\ oracle = [dict |-> <<>>, view |-> NoView]
  /\ last = Idle

ViewSetAct ==
  \E k \in SortedMapStoredKeys, v \in SortedMapObjects :
    \E r \in {SortedMapSet(SortedMap, k, v)} :
      /\ map' = r.sortedMap.map
      /\ coll' = r.sortedMap.sortedCollection
      /\ oracle' = [oracle EXCEPT !.dict = DictPut(@, k, v)]
      /\ last' = [op |-> "set", key |-> k, value |-> v, threw |-> r.threw]
      /\ UNCHANGED <<adapter, nextOrder>>

ViewRemoveAct ==
  \E k \in SortedMapStoredKeys :
    \E sm \in {SortedMapRemove(SortedMap, k)} :
      /\ map' = sm.map
      /\ coll' = sm.sortedCollection
      /\ oracle' = [oracle EXCEPT !.dict = DictDel(@, k)]
      /\ last' = [op |-> "remove", key |-> k]
      /\ UNCHANGED <<adapter, nextOrder>>

AsReadonlyMapAct ==
  /\ oracle' = [oracle EXCEPT !.view = SortedMapView(SortedMap, "map")]
  /\ last' = [op |-> "asReadonlyMap"]
  /\ UNCHANGED <<adapter, map, coll, nextOrder>>

KeysAsReadonlySetAct ==
  /\ oracle' = [oracle EXCEPT !.view = SortedMapView(SortedMap, "set")]
  /\ last' = [op |-> "keysAsReadonlySet"]
  /\ UNCHANGED <<adapter, map, coll, nextOrder>>

\* view.size, view.has(k), view.get(k) for a map, and the traversal of the
\* view, read one after the other
ViewReadAct ==
  \E k \in SortedMapObjectKeys :
    /\ oracle.view # NoView
    /\ last' = [op |-> "read", key |-> k,
                size |-> ViewSize(oracle.view),
                has |-> ViewHas(oracle.view, SortedMap, k),
                get |-> IF oracle.view.kind = "map"
                        THEN ViewGet(oracle.view, SortedMap, k) ELSE Undefined,
                iteration |-> ViewIteration(oracle.view, SortedMap)]
    /\ UNCHANGED <<adapter, map, coll, nextOrder, oracle>>

NextView ==
  \/ ViewSetAct
  \/ ViewRemoveAct
  \/ AsReadonlyMapAct
  \/ KeysAsReadonlySetAct
  \/ ViewReadAct

SpecView == InitView /\ [][NextView]_vars

\* C39: a view stays in step with its container: after further set and
\* remove calls the size of the view is the getSize of the container now, as
\* its get, has and iteration are those of the container now.
C39_ViewInStep ==
  last.op = "read" =>
    /\ last.size = SortedMapGetSize(SortedMap)
    /\ last.has = SortedMapHas(SortedMap, last.key)
    /\ oracle.view.kind = "map" => last.get = SortedMapGet(SortedMap, last.key)
    /\ last.iteration = ViewIteration(oracle.view, SortedMap)

\* get, has and the iteration of a view are those of the dictionary of the
\* run now, whatever was set and removed since the view was made
ViewReadsContainerNow ==
  last.op = "read" =>
    /\ last.has = (last.key \in DOMAIN oracle.dict)
    /\ oracle.view.kind = "map" =>
         last.get = IF last.key \in DOMAIN oracle.dict THEN oracle.dict[last.key]
                    ELSE Undefined
    /\ Len(last.iteration) = Cardinality(DOMAIN oracle.dict)
    /\ \A i \in 1..Len(last.iteration) :
         IF oracle.view.kind = "map"
         THEN /\ last.iteration[i][1] \in DOMAIN oracle.dict
              /\ last.iteration[i][2] = oracle.dict[last.iteration[i][1]]
         ELSE last.iteration[i] \in DOMAIN oracle.dict

\* the size of a view is the size its container had when the view was made:
\* only asReadonlyMap and keysAsReadonlySet give it a value
ViewSizeIsOfItsMaking ==
  [][/\ last'.op \in {"asReadonlyMap", "keysAsReadonlySet"} =>
          ViewSize(oracle'.view) = SortedMapGetSize(SortedMap)
     /\ last'.op \notin {"asReadonlyMap", "keysAsReadonlySet"} =>
          ViewSize(oracle'.view) = ViewSize(oracle.view)]_vars

\* a view of an empty map is read after two sets: it has the key, iterates
\* two entries and its size is 0
ViewBehindItsContainer ==
  /\ last.op = "read" /\ oracle.view.kind = "map"
  /\ last.size = 0 /\ last.has /\ Len(last.iteration) = 2

\* C36 in the other runs (objects; the wrappers of an LRU cache, with get and
\* eviction): update finds the tuple of every key that has one, and of the
\* keys of the runs of objects, and no call threw
UpdateFindsTupleOfObjects ==
  /\ \A k \in SortedMapObjectKeys \cup SeqRange(CollKeys(coll)) :
       ~UpdateWouldThrow(SortedMap, k)
  /\ last.op \in {"set", "update", "get"} => ~last.threw

====
